---- MODULE Spec2Model ----
(***************************************************************************)
(* Ellipticity corrections for seismic body waves (EllipticiPy).           *)
(*                                                                         *)
(* The repository holds two variants of tools.py:                          *)
(*   src/src/ellipticity/tools.py   (names kept as in the source)          *)
(*   src/src/ellipticipy/tools.py   (names prefixed ipy_ where they clash) *)
(*                                                                         *)
(* Numbers.  The source computes in floating point; the model computes on  *)
(* integer grids:                                                          *)
(*   lengths (depth, radius)   metres (the source's km values times 1e3)   *)
(*   velocities                m/s                                         *)
(*   densities                 100 kg/m^3                                  *)
(*   angles in radians         units of pi/12                              *)
(*   arrival distances (deg)   units of 1e-10 degree                       *)
(*   dimensionless fractions   fixed point, Scale = 1000                   *)
(*   epsilon                   fixed point, 1e-6                           *)
(* Division truncates toward zero (Quot).                                  *)
(***************************************************************************)
EXTENDS Integers, Sequences, FiniteSets, TLC

\* ------------------------------------------------------------------------
\* Arithmetic on the integer grids
\* ------------------------------------------------------------------------

\* Fixed-point resolution of dimensionless fractions.
Scale == 10 * 100

\* Resolution of the scaled radii used inside model_epsilon (see there).
Hecto == 10 * 10

Abs(x) == IF x < 0 THEN -x ELSE x

Sign(x) == IF x > 0 THEN 1 ELSE IF x < 0 THEN -1 ELSE 0

\* Real division a / b on the grid, rounded toward zero.
Quot(a, b) ==
    LET q == Abs(a) \div Abs(b)
    IN  IF (a < 0) # (b < 0) THEN -q ELSE q

MaxOf(S) == CHOOSE x \in S : \A y \in S : y <= x

RECURSIVE SqrtSearch(_, _, _)
SqrtSearch(n, lo, hi) ==
    IF lo >= hi THEN lo
    ELSE LET mid == (lo + hi + 1) \div 2
         IN  IF mid * mid <= n THEN SqrtSearch(n, mid, hi)
             ELSE SqrtSearch(n, lo, mid - 1)

\* np.sqrt of a non-negative grid value (floor of the real root).
Sqrt(n) == SqrtSearch(n, 0, IF n < 46340 THEN n ELSE 46340)

RECURSIVE Gcd(_, _)
Gcd(a, b) == IF b = 0 THEN a ELSE Gcd(b, a % b)

RECURSIVE SumSeq(_)
SumSeq(s) == IF s = <<>> THEN 0 ELSE Head(s) + SumSeq(Tail(s))

RECURSIVE CumSum(_)
CumSum(s) ==
    IF Len(s) <= 1 THEN s
    ELSE LET c == CumSum(SubSeq(s, 1, Len(s) - 1))
         IN  Append(c, c[Len(c)] + s[Len(s)])

Reverse(s) == [i \in 1..Len(s) |-> s[Len(s) + 1 - i]]

\* math.factorial for n >= 0 (negative arguments raise, see weighted_alp2).
RECURSIVE factorial(_)
factorial(n) == IF n <= 0 THEN 1 ELSE n * factorial(n - 1)

\* ------------------------------------------------------------------------
\* Angles: np.cos, np.sin, np.radians
\* ------------------------------------------------------------------------

\* pi in angle units (one unit is pi/12, 15 degrees).
HalfTurn == 2 * 6

\* Scale * cos(k * pi/12) for k = 0..6.
CosQuarter == <<1000, 966, 866, 707, 500, 259, 0>>

Cos(theta) ==
    LET k == theta % (2 * HalfTurn)
        f == IF k > HalfTurn THEN 2 * HalfTurn - k ELSE k
    IN  IF 2 * f <= HalfTurn THEN CosQuarter[f + 1]
        ELSE -CosQuarter[HalfTurn - f + 1]

Sin(theta) == Cos(theta - HalfTurn \div 2)

\* np.radians: degrees to radians (exact for multiples of 15 degrees).
Radians(deg) == Quot(deg * HalfTurn, 180)

\* ------------------------------------------------------------------------
\* Outcomes of a call: a returned value or a raised exception
\* ------------------------------------------------------------------------

Return(v) == [exc |-> "", val |-> v]

Raise(e) == [exc |-> e, val |-> <<>>]

NoOutcome == [exc |-> "none", val |-> <<>>]

\* ------------------------------------------------------------------------
\* weighted_alp2 (identical in both variants)
\* ------------------------------------------------------------------------

\* The squared normalisation prefactor as a fraction <<numerator, denominator>>:
\* norm^2 = (2 - kronecker_0m) * (2 - m)! / (2 + m)!
NormSquaredWrongFactorial(m) ==
    LET kronecker_0m == IF m = 0 THEN 1 ELSE 0
    IN  <<(2 - kronecker_0m) * factorial(m), factorial(2 + m)>>

norm_squared(m) ==
    LET kronecker_0m == IF m = 0 THEN 1 ELSE 0
    IN  <<(2 - kronecker_0m) * factorial(2 - m), factorial(2 + m)>>

\* norm = np.sqrt(norm^2), in fixed point.
norm(m) ==
    LET root(f) == Sqrt(Quot(Scale * Scale * f[1], f[2]))
    IN  root(norm_squared(m))

WeightedAlp2NoRaise(m, theta) ==
    LET branches(nrm, c, s) ==
            IF m = 0 THEN
                Return(<<Quot(nrm * (Quot(3 * c * c, Scale) - Scale), 2 * Scale)>>)
            ELSE IF m = 1 THEN
                Return(<<Quot(nrm * Quot(3 * c * s, Scale), Scale)>>)
            ELSE IF m = 2 THEN
                Return(<<Quot(nrm * Quot(3 * s * s, Scale), Scale)>>)
            ELSE Return(<<0>>)
    IN  branches(norm(m), Cos(theta), Sin(theta))

\* weighted_alp2(m, theta): math.factorial raises ValueError for a negative
\* argument before the order is examined; an order that is not 0, 1 or 2
\* reaches the final raise.
weighted_alp2(m, theta) ==
    LET branches(nrm, c, s) ==
            IF m = 0 THEN
                Return(<<Quot(nrm * (Quot(3 * c * c, Scale) - Scale), 2 * Scale)>>)
            ELSE IF m = 1 THEN
                Return(<<Quot(nrm * Quot(3 * c * s, Scale), Scale)>>)
            ELSE IF m = 2 THEN
                Return(<<Quot(nrm * Quot(3 * s * s, Scale), Scale)>>)
            ELSE Raise("ValueError")
    IN  IF 2 - m < 0 \/ 2 + m < 0 THEN Raise("ValueError")
        ELSE branches(norm(m), Cos(theta), Sin(theta))

\* The value of weighted_alp2 for a valid order.
alp2(m, theta) == weighted_alp2(m, theta).val[1]

\* lambda_m = -(2/3) * weighted_alp2(m, distance)
lamda(m, dist) == Quot(-2 * alp2(m, dist), 3)

\* ------------------------------------------------------------------------
\* correction_from_coefficients (ellipticipy variant)
\* ------------------------------------------------------------------------

CorrectionLatitudeForColatitude(coefficients, azimuth, source_latitude) ==
    LET colatitude == Radians(source_latitude)
        az == Radians(azimuth)
    IN  SumSeq([m1 \in 1..3 |->
            Quot(Quot(coefficients[m1] * alp2(m1 - 1, colatitude), Scale)
                 * Cos((m1 - 1) * az), Scale)])

correction_from_coefficients(coefficients, azimuth, source_latitude) ==
    LET colatitude == Radians(90 - source_latitude)
        az == Radians(azimuth)
    IN  SumSeq([m1 \in 1..3 |->
            Quot(Quot(coefficients[m1] * alp2(m1 - 1, colatitude), Scale)
                 * Cos((m1 - 1) * az), Scale)])

\* ------------------------------------------------------------------------
\* The velocity model (the layered planet the ray tracer and both variants
\* query).  A small planet: two mantle layers that join without a jump at
\* 100 m, a fluid outer core below 200 m and an inner core below 300 m.
\* ------------------------------------------------------------------------

Layers == <<
    [top_depth |-> 0, bot_depth |-> 100,
     top_p_velocity |-> 8, bot_p_velocity |-> 9,
     top_s_velocity |-> 4, bot_s_velocity |-> 5,
     top_density |-> 33, bot_density |-> 40],
    [top_depth |-> 100, bot_depth |-> 200,
     top_p_velocity |-> 9, bot_p_velocity |-> 11,
     top_s_velocity |-> 5, bot_s_velocity |-> 6,
     top_density |-> 40, bot_density |-> 55],
    [top_depth |-> 200, bot_depth |-> 300,
     top_p_velocity |-> 6, bot_p_velocity |-> 8,
     top_s_velocity |-> 0, bot_s_velocity |-> 0,
     top_density |-> 99, bot_density |-> 121],
    [top_depth |-> 300, bot_depth |-> 400,
     top_p_velocity |-> 9, bot_p_velocity |-> 10,
     top_s_velocity |-> 3, bot_s_velocity |-> 4,
     top_density |-> 127, bot_density |-> 131] >>

radius_of_planet ==
    LET bottom(layers) == layers[Len(layers)].bot_depth
    IN  bottom(Layers)

cmb_depth == Layers[3].top_depth

iocb_depth == Layers[4].top_depth

\* VelocityModel.layer_number_above: the layer with top < depth <= bottom
\* (0 when there is none, where the collaborator raises LookupError).
layer_number_above(depth) ==
    LET holds(layer) == layer.top_depth < depth /\ depth <= layer.bot_depth
    IN  MaxOf({0} \cup {i \in 1..Len(Layers) : holds(Layers[i])})

\* VelocityModel.layer_number_below: the layer with top <= depth < bottom.
layer_number_below(depth) ==
    LET holds(layer) == layer.top_depth <= depth /\ depth < layer.bot_depth
    IN  MaxOf({0} \cup {i \in 1..Len(Layers) : holds(Layers[i])})

top_of(layer, prop) ==
    IF prop = "p" THEN layer.top_p_velocity
    ELSE IF prop = "s" THEN layer.top_s_velocity
    ELSE layer.top_density

bot_of(layer, prop) ==
    IF prop = "p" THEN layer.bot_p_velocity
    ELSE IF prop = "s" THEN layer.bot_s_velocity
    ELSE layer.bot_density

\* The collaborator's linear interpolation of a property inside a layer.
evaluate_at(layer, depth, prop) ==
    Quot((bot_of(layer, prop) - top_of(layer, prop)) * (depth - layer.top_depth),
         layer.bot_depth - layer.top_depth)
    + top_of(layer, prop)

evaluate_above(depth, prop) == evaluate_at(Layers[layer_number_above(depth)], depth, prop)

evaluate_below(depth, prop) == evaluate_at(Layers[layer_number_below(depth)], depth, prop)

\* VelocityModel.get_discontinuity_depths: the surface, every layer boundary
\* across which a velocity jumps, and the centre.
get_discontinuity_depths ==
    LET jump(above, below) ==
            \/ above.bot_p_velocity # below.top_p_velocity
            \/ above.bot_s_velocity # below.top_s_velocity
        boundaries(layers) ==
            {layers[i].bot_depth :
                i \in {k \in 1..(Len(layers) - 1) : jump(layers[k], layers[k + 1])}}
            \cup {layers[1].top_depth, layers[Len(layers)].bot_depth}
    IN  boundaries(Layers)

\* get_discontinuity_depths()[:-1]: the centre of the planet is dropped.
discs == get_discontinuity_depths \ {radius_of_planet}

\* str.lower on the property tags the model draws from.
lower(prop) ==
    IF prop = "P" THEN "p" ELSE IF prop = "S" THEN "s"
    ELSE IF prop = "D" THEN "d" ELSE IF prop = "R" THEN "r"
    ELSE IF prop = "RD" THEN "rd" ELSE prop

\* The strings s for which Python's  s in "rd"  holds (substring test).
SubstringsOfRd == {"", "r", "d", "rd"}

\* evaluate_derivative_at (both variants): the slope of a property in a
\* layer, in fixed point; any tag other than p, s, r, d raises ValueError.
evaluate_derivative_at(layer, prop0) ==
    LET thick == layer.bot_depth - layer.top_depth
        prop == lower(prop0)
    IN  IF prop = "p" THEN
            Return(<<Quot((layer.bot_p_velocity - layer.top_p_velocity) * Scale, thick)>>)
        ELSE IF prop = "s" THEN
            Return(<<Quot((layer.bot_s_velocity - layer.top_s_velocity) * Scale, thick)>>)
        ELSE IF prop \in SubstringsOfRd THEN
            Return(<<Quot((layer.bot_density - layer.top_density) * Scale, thick)>>)
        ELSE Raise("ValueError")

evaluate_derivative_below(depth, prop) ==
    evaluate_derivative_at(Layers[layer_number_below(depth)], prop)

evaluate_derivative_above(depth, prop) ==
    evaluate_derivative_at(Layers[layer_number_above(depth)], prop)

\* get_dvdr_below, get_dvdr_above (ellipticity variant): dv/dr at a radius.
get_dvdr_below(radius, wave) ==
    -(evaluate_derivative_below(radius_of_planet - radius, wave).val[1])

get_dvdr_above(radius, wave) ==
    -(evaluate_derivative_above(radius_of_planet - radius, wave).val[1])

\* ------------------------------------------------------------------------
\* model_epsilon: the profile of ellipticity of figure
\* ------------------------------------------------------------------------

\* Length of day of the Earth in seconds (86164.0905 in the source).
EARTH_LOD == 86164

\* Step length in metres of the discretisation (the default of dr).
DR == 100

\* pi / G = 4.7071e10 kg s^2 m^-3, held in units of 100.
PiOverG == 47071 * 10000

RotationFactorOfEarthDay(lod) ==
    10 * Quot(PiOverG, (EARTH_LOD \div 100) * (EARTH_LOD \div 100))

\* Scale * pi / (G * lod^2): the lod-dependent factor of ha.
RotationFactor(lod) == 10 * Quot(PiOverG, (lod \div 100) * (lod \div 100))

\* scipy cumtrapz with unit spacing: running trapezoid sums, one fewer entry.
cumtrapz(y) == CumSum([k \in 1..(Len(y) - 1) |-> y[k] + y[k + 1]])

\* np.exp in fixed point (series to the fourth power).
Exp(x) ==
    Scale + x + Quot(x * x, 2 * Scale) + Quot(Quot(x * x, Scale) * x, 6 * Scale)
    + Quot(Quot(Quot(x * x, Scale) * x, Scale) * x, 24 * Scale)

\* Radau's parameter for a moment of inertia factor y, both in fixed point.
Radau(y) ==
    LET t == Scale - Quot(3 * y, 2)
    IN  Quot(625 * t * t, 100 * Scale) - Scale

\* model_epsilon(model, lod, taper=True, dr=100) of the ellipticity variant.
\* Radii are held in units of dr inside the sums (y and ha are ratios in
\* which the unit cancels); the trapezoid halves are applied at the end.
model_epsilon(lod) ==
    LET a  == radius_of_planet
        n  == 1 + a \div DR
        r  == [i \in 1..n |-> Quot((i - 1) * a, n - 1)]
        q  == [i \in 1..n |-> r[i] \div DR]
        clamp(y0) == IF y0 > 400 THEN 400 ELSE y0
        \* epsilon = epsilona * exp(cumtrapz(eta / r)), tapered at the centre
        profile(epsilona, ex) ==
            LET tapered(e1) == [epsilon_r |-> r, epsilon |-> <<e1[1]>> \o e1]
            IN  tapered([k \in 1..(n - 1) |-> Quot(epsilona * ex[k], ex[n - 1])])
        exponent(g) == <<0>> \o [k \in 1..(n - 2) |-> Quot(cumtrapz(g)[k], 2)]
        clairaut(ha, eta) ==
            LET ex(ct) == [k \in 1..(n - 1) |-> Exp(ct[k])]
            IN  profile(Quot(5 * ha * Scale, 2 * eta[n - 1] + 4 * Scale),
                        ex(exponent([k \in 1..(n - 1) |-> Quot(eta[k], q[k + 1])])))
        \* Mr and Ir: mass and moment of inertia inside every radius
        figure(Mr, Ir) ==
            clairaut(Quot(RotationFactor(lod) * q[n] * q[n] * q[n] * 2 * 10, Mr[n - 1]),
                     [k \in 1..(n - 1) |->
                        Radau(clamp(Quot(2 * Scale * Ir[k],
                                         3 * Mr[k] * q[k + 1] * q[k + 1])))])
        integrals(rho) ==
            figure(cumtrapz([i \in 1..n |-> rho[i] * q[i] * q[i]]),
                   cumtrapz([i \in 1..n |-> rho[i] * q[i] * q[i] * q[i] * q[i]]))
    IN  integrals([i \in 1..n |->
                      IF i < n THEN evaluate_above(a - r[i], "d")
                      ELSE evaluate_below(0, "d")])

\* model_epsilon(model, lod) of the ellipticipy variant: shells are the
\* velocity layers, innermost first; no taper.
ipy_model_epsilon(lod) ==
    LET L  == Len(Layers)
        cube(x) == x * x * x
        \* top_radius: the radius of the top of every shell, innermost first
        shells(rev, top_radius) ==
            LET profile(epsilona, ex) ==
                    LET layered(epsilon) ==
                            [top_epsilon |-> SubSeq(epsilon, 1, L),
                             bot_epsilon |-> SubSeq(epsilon, 2, L + 1)]
                        centred(e1) == layered(Reverse(<<e1[1]>> \o e1))
                    IN  centred([i \in 1..L |-> Quot(epsilona * ex[i], ex[L])])
                exponent(g) ==
                    <<0>> \o [k \in 1..(L - 1) |->
                        SumSeq([i \in 1..k |->
                            Quot((g[i] + g[i + 1]) * (top_radius[i + 1] - top_radius[i]),
                                 2)])]
                clairaut(ha, radau) ==
                    LET ex(ct) == [i \in 1..L |-> Exp(ct[i])]
                    IN  profile(Quot(5 * ha * Scale, 2 * radau[L] + 4 * Scale),
                                ex(exponent([i \in 1..L |->
                                                Quot(radau[i], top_radius[i])])))
                figure(mass, moment_of_inertia) ==
                    clairaut(Quot(3 * RotationFactor(lod) * cube(top_radius[L]) * 2 * 10,
                                  mass[L]),
                             [i \in 1..L |->
                                Radau(Quot(2 * Scale * moment_of_inertia[i],
                                           5 * mass[i] * top_radius[i] * top_radius[i]))])
                integrals(dens, volume, j) ==
                    figure(CumSum([i \in 1..L |-> dens[i] * (volume[i + 1] - volume[i])]),
                           CumSum([i \in 1..L |-> dens[i] * (j[i + 1] - j[i])]))
            IN  integrals([i \in 1..L |-> rev[i].bot_density + rev[i].top_density],
                          <<0>> \o [i \in 1..L |-> cube(top_radius[i])],
                          <<0>> \o [i \in 1..L |->
                                cube(top_radius[i]) * top_radius[i] * top_radius[i]])
        reversed(rev) ==
            shells(rev, [i \in 1..L |-> (radius_of_planet - rev[i].top_depth) \div Hecto])
    IN  reversed(Reverse(Layers))


\* ------------------------------------------------------------------------
\* Floating point values that are not finite
\* ------------------------------------------------------------------------

\* The value standing for nan and inf (np.sqrt of a negative number, a
\* division by zero): outside the range of every finite value of the model.
NaN == -2000000000

FAdd(a, b) == IF a = NaN \/ b = NaN THEN NaN ELSE a + b

FMul(a, b) == IF a = NaN \/ b = NaN THEN NaN ELSE a * b

FNeg(a) == IF a = NaN THEN NaN ELSE -a

\* a / b in floating point, rescaled by 1/k: not finite when b is zero.
FDiv(a, b) == IF a = NaN \/ b = NaN \/ b = 0 THEN NaN ELSE Quot(a, b)

RECURSIVE FSum(_)
FSum(s) == IF s = <<>> THEN 0 ELSE FAdd(Head(s), FSum(Tail(s)))

\* np.sqrt(x) as the source calls it without a clamp: nan below zero.
FSqrt(x) == IF x = NaN \/ x < 0 THEN NaN ELSE Sqrt(x)

\* np.sqrt(y * (y > 0)): the clamped root of the ellipticipy variant.
ClampedSqrt(y) == Sqrt(IF y > 0 THEN y ELSE 0)

\* ------------------------------------------------------------------------
\* get_epsilon: sampling the profile
\* ------------------------------------------------------------------------

GetEpsilonOfSampleBelow(profile, radius) ==
    LET below(idx) == profile.epsilon[IF idx > 0 THEN idx ELSE 1]
    IN  below(Cardinality({i \in 1..Len(profile.epsilon_r) :
                              profile.epsilon_r[i] < radius}))

\* get_epsilon(model, radius) of the ellipticity variant: the stored value
\* at the radius nearest to the given one (np.searchsorted, side="left").
get_epsilon(profile, radius) ==
    LET radii == profile.epsilon_r
        n   == Len(radii)
        idx == Cardinality({i \in 1..n : radii[i] < radius})
    IN  IF idx > 0 /\ (idx = n \/ Abs(radius - radii[idx]) < Abs(radius - radii[idx + 1]))
        THEN profile.epsilon[idx]
        ELSE profile.epsilon[idx + 1]

\* get_epsilon(model, depth) of the ellipticipy variant: linear
\* interpolation between the top and the bottom of the layer above depth.
ipy_get_epsilon(profile, depth) ==
    LET layer_idx == IF depth > 0 THEN layer_number_above(depth)
                     ELSE layer_number_below(0)
        layer == Layers[layer_idx]
        thick == layer.bot_depth - layer.top_depth
        bot_eps == profile.bot_epsilon[layer_idx]
        top_eps == profile.top_epsilon[layer_idx]
    IN  Quot((bot_eps - top_eps) * (depth - layer.top_depth), thick) + top_eps


\* ------------------------------------------------------------------------
\* Arrivals and ray paths (produced by the ray tracer)
\*
\* An arrival is a record
\*   [name, distance, purist_distance, ray_param, source_depth, path]
\* name is the phase name as a sequence of characters; path is a sequence of
\* points [p, time, dist, depth] (columns 0..3 of the tracer's path array),
\* or <<>> for an arrival without a ray path (path is None).
\* ------------------------------------------------------------------------

Depths(path) == {path[i].depth : i \in 1..Len(path)}

\* max([x[3] for x in arrival.path])
bottoming_depth(arrival) == MaxOf(Depths(arrival.path))

\* The phase is never taken for a diffracted one.
NeverDiff(name) == FALSE

Diff == <<"d", "i", "f", "f">>

HasDiff(name) == \E i \in 1..(Len(name) - 3) : SubSeq(name, i, i + 3) = Diff

\* phase_name.index("diff"), counted from 1.
IndexOfDiff(name) ==
    CHOOSE i \in 1..(Len(name) - 3) :
        /\ SubSeq(name, i, i + 3) = Diff
        /\ \A j \in 1..(i - 1) : SubSeq(name, j, j + 3) # Diff

\* str.replace("diff", ch)
RECURSIVE ReplaceDiff(_, _)
ReplaceDiff(name, ch) ==
    IF Len(name) < 4 THEN name
    ELSE IF SubSeq(name, 1, 4) = Diff
         THEN <<ch>> \o ReplaceDiff(SubSeq(name, 5, Len(name)), ch)
         ELSE <<Head(name)>> \o ReplaceDiff(Tail(name), ch)

IsNotBoundaryMarker(ch) == ch \notin {"c", "i"}

SimpleLetter(ch) ==
    IF ch \in {"K", "I"} THEN "P" ELSE IF ch = "J" THEN "S" ELSE ch

\* The letters of the phase name, one per leg between the surface, the
\* core-mantle boundary and the inner-core boundary (ray_path, first part).
phase_segments(name) ==
    LET k == IF HasDiff(name) THEN IndexOfDiff(name) ELSE 0
        \* phase_name[index - 1]; index 0 wraps to the last character
        ch == IF k > 1 THEN name[k - 1] ELSE name[Len(name)]
        replaced == IF HasDiff(name) THEN ReplaceDiff(name, ch) ELSE name
        stripped == SelectSeq(replaced, IsNotBoundaryMarker)
    IN  [i \in 1..Len(stripped) |-> SimpleLetter(stripped[i])]

\* str.lower on a phase letter.
lower_letter(ch) == IF ch = "P" THEN "p" ELSE IF ch = "S" THEN "s" ELSE ch

\* The value of  letter  after point i of the path has been examined.
letter_at(path, i) ==
    Cardinality({j \in 2..i :
        /\ j # Len(path)
        /\ path[j].depth \in {0, cmb_depth, iocb_depth}
        /\ path[j].depth # path[j - 1].depth})

\* The splitting loop with the point that closes a segment tagged as the
\* segment it opens.
RECURSIVE SplitLoopClosingWithNextTag(_, _, _, _, _)
SplitLoopClosingWithNextTag(path, waves, bot_dep, i, segs) ==
    IF i > Len(path) THEN segs
    ELSE
        LET pathi == path[i]
            starts == /\ (i = 1 \/ pathi.depth \in discs \/ pathi.depth = bot_dep)
                      /\ i # Len(path)
            count == Len(segs)
            closed ==
                IF starts /\ count # 0
                THEN [segs EXCEPT ![count] =
                        [path |-> Append(@.path, pathi),
                         wave |-> Append(@.wave, waves[i])]]
                ELSE segs
            opened ==
                IF starts THEN Append(closed, [path |-> <<>>, wave |-> <<>>])
                ELSE closed
            n == Len(opened)
            added == [opened EXCEPT ![n] =
                        [path |-> Append(@.path, pathi),
                         wave |-> Append(@.wave, waves[i])]]
        IN  SplitLoopClosingWithNextTag(path, waves, bot_dep, i + 1, added)

\* The splitting loop of ray_path, point i onwards.  segs is the list of
\* segments built so far, each [path, wave].
RECURSIVE split_loop(_, _, _, _, _)
split_loop(path, waves, bot_dep, i, segs) ==
    IF i > Len(path) THEN segs
    ELSE
        LET pathi == path[i]
            starts == /\ (i = 1 \/ pathi.depth \in discs \/ pathi.depth = bot_dep)
                      /\ i # Len(path)
            count == Len(segs)
            closed ==
                IF starts /\ count # 0
                THEN [segs EXCEPT ![count] =
                        [path |-> Append(@.path, pathi),
                         wave |-> Append(@.wave, waves[i - 1])]]
                ELSE segs
            opened ==
                IF starts THEN Append(closed, [path |-> <<>>, wave |-> <<>>])
                ELSE closed
            n == Len(opened)
            added == [opened EXCEPT ![n] =
                        [path |-> Append(@.path, pathi),
                         wave |-> Append(@.wave, waves[i])]]
        IN  split_loop(path, waves, bot_dep, i + 1, added)

RayPathSplitAtDiscontinuitiesOnly(arrival) ==
    LET split(path, segments) ==
            split_loop(path,
                       [i \in 1..Len(path) |->
                           lower_letter(segments[letter_at(path, i) + 1])],
                       0 - 1, 1, <<>>)
    IN  [exc |-> "", segs |-> split(arrival.path, phase_segments(arrival.name))]

\* ray_path(arrival, model): the segments of the path with the wave type of
\* every point; IndexError when the phase name has too few letters.
ray_path(arrival) ==
    LET path == arrival.path
        segments == phase_segments(arrival.name)
        short == \E i \in 1..Len(path) : letter_at(path, i) + 1 > Len(segments)
        waves == [i \in 1..Len(path) |->
                    lower_letter(segments[letter_at(path, i) + 1])]
    IN  IF short THEN [exc |-> "IndexError", segs |-> <<>>]
        ELSE [exc |-> "",
              segs |-> split_loop(path, waves, bottoming_depth(arrival), 1, <<>>)]


\* ------------------------------------------------------------------------
\* integral_coefficients (ellipticity variant)
\* Coefficients are held in units of 1e-3 s.
\* ------------------------------------------------------------------------

\* One radian step of the path grid: pi/12 = 0.2618, times 10000.
AngleUnitE4 == 2 * 1309

\* np.trapz(f, x=dist) for f in units of 1e-3 and dist in angle units.
trapz(f, dist) ==
    FSum([k \in 1..(Len(f) - 1) |->
            IF f[k] = NaN \/ f[k + 1] = NaN THEN NaN
            ELSE Quot((f[k] + f[k + 1]) * (dist[k + 1] - dist[k]) * AngleUnitE4,
                      2 * 10000)])

\* The three coefficients of one segment.
segment_integral(arrival, profile, seg) ==
    LET Re  == radius_of_planet
        p   == arrival.ray_param
        n   == Len(seg.path)
        \* dep[dep == Re * 1e3] = Re * 1e3 - 1
        moved(depth) == IF depth = Re THEN Re - 1 ELSE depth
        dep == [i \in 1..n |-> moved(seg.path[i].depth)]
        maxdep == MaxOf({moved(seg.path[i].depth) : i \in 1..n})
        v(d, wave) == IF d # maxdep THEN evaluate_below(d, wave)
                      ELSE evaluate_above(d, wave)
        dvdr(d) == IF d # maxdep THEN get_dvdr_below(Re - d, seg.wave[1])
                   ELSE get_dvdr_above(Re - d, seg.wave[1])
        kernel(m, eta, dv, epsilon, dist) ==
            IF eta = NaN THEN NaN
            ELSE Quot(Quot(Quot(eta * eta * eta * dv, Scale) * epsilon, Scale)
                      * lamda(m, dist), Scale)
        sampled(eta, dist) ==
            [m1 \in 1..3 |->
                FDiv(trapz([i \in 1..n |->
                              kernel(m1 - 1, eta[i], dvdr(dep[i]),
                                     get_epsilon(profile, Re - dep[i]), dist[i])],
                           dist),
                     p)]
    IN  sampled([i \in 1..n |-> FDiv(Re - dep[i], v(dep[i], seg.wave[i]))],
                [i \in 1..n |-> seg.path[i].dist])

\* integral_coefficients(arrival, model, paths, wave_paths)
integral_coefficients(arrival, profile, segs) ==
    [m1 \in 1..3 |->
        FSum([x \in 1..Len(segs) |-> segment_integral(arrival, profile, segs[x])[m1]])]

\* ------------------------------------------------------------------------
\* discontinuity_coefficients (ellipticity variant)
\* ------------------------------------------------------------------------

\* The root with its sign turned.
NegatedSlownessRoot(r, v, p) ==
    LET root(eta) == IF eta = NaN THEN NaN ELSE FNeg(FSqrt(eta * eta - p * p))
    IN  root(FDiv(r, v))

\* sqrt(eta^2 - p^2) with eta = r / v, as the source writes it (no clamp).
slowness_root(r, v, p) ==
    LET root(eta) == IF eta = NaN THEN NaN ELSE FSqrt(eta * eta - p * p)
    IN  root(FDiv(r, v))

\* The boundary points without the bottoming depth among the depths that
\* are assessed.
AssessedPointsAtDiscontinuitiesOnly(arrival) ==
    LET path == arrival.path
        with_source(ids) ==
            IF arrival.source_depth \notin {0, ids[1].dep}
            THEN <<[ind |-> 1, dep |-> arrival.source_depth, dist |-> 0]>> \o ids
            ELSE ids
        points(ordered) ==
            with_source([k \in 1..Len(ordered) |->
                            [ind |-> ordered[k], dep |-> path[ordered[k]].depth,
                             dist |-> path[ordered[k]].dist]])
    IN  points(SelectSeq([i \in 1..Len(path) |-> i],
                         LAMBDA i : path[i].depth \in discs))

\* The boundary points the loop assesses: [ind, dep, dist], ind counted
\* from 1 as the points of the path are.
assessed_points(arrival) ==
    LET path == arrival.path
        with_source(ids) ==
            IF arrival.source_depth \notin {0, ids[1].dep}
            THEN <<[ind |-> 1, dep |-> arrival.source_depth, dist |-> 0]>> \o ids
            ELSE ids
        points(ordered) ==
            with_source([k \in 1..Len(ordered) |->
                            [ind |-> ordered[k], dep |-> path[ordered[k]].depth,
                             dist |-> path[ordered[k]].dist]])
        hits(assess_discs) ==
            points(SelectSeq([i \in 1..Len(path) |-> i],
                             LAMBDA i : path[i].depth \in assess_discs))
        bottoming(bot_dep) ==
            hits(IF bot_dep = path[1].depth THEN discs ELSE discs \cup {bot_dep})
    IN  bottoming(bottoming_depth(arrival))

\* One pass of the loop body for the boundary point idisc, the d-th one
\* (d counted from 1).  eva_in is the value the variable eva holds when the
\* pass begins ([set |-> FALSE] before its first assignment).  The result
\* names the branch taken (kind), the value of eva afterwards, whether the
\* pass assigned it (fresh) and, when the point is summed, its three
\* coefficients.
assess_point(arrival, profile, segs, idisc, d, eva_in) ==
    LET path == arrival.path
        N    == Len(path)
        r    == radius_of_planet - idisc.dep
        p    == path[1].p
        \* what a branch leaves behind: nothing summed, an exception, eva
        \* assigned, or eva as it was
        skip(kind) == [exc |-> "", yn |-> FALSE, kind |-> kind, eva |-> eva_in,
                       fresh |-> FALSE]
        fail(e) == [exc |-> e, yn |-> TRUE, kind |-> "error", eva |-> eva_in,
                    fresh |-> FALSE]
        assigned(kind, x) == [exc |-> "", yn |-> TRUE, kind |-> kind,
                              eva |-> [set |-> TRUE, val |-> x], fresh |-> TRUE]
        kept(kind) == [exc |-> "", yn |-> TRUE, kind |-> kind, eva |-> eva_in,
                       fresh |-> FALSE]
        \* the three sums  sigma[m] += extra[m] * eva  that end a pass
        done(branch) ==
            LET none == <<0, 0, 0>>
                extra(eps) == [m1 \in 1..3 |-> eps * lamda(m1 - 1, idisc.dist)]
                summed(ex, eva) ==
                    [m1 \in 1..3 |->
                        IF eva = NaN THEN NaN ELSE Quot(ex[m1] * eva, Scale * Scale)]
            IN  IF branch.exc # "" \/ ~branch.yn
                THEN [exc |-> branch.exc, yn |-> branch.yn, kind |-> branch.kind,
                      eva |-> branch.eva, fresh |-> branch.fresh, sigma |-> none]
                ELSE IF ~branch.eva.set
                THEN [exc |-> "UnboundLocalError", yn |-> TRUE, kind |-> "error",
                      eva |-> eva_in, fresh |-> FALSE, sigma |-> none]
                ELSE [exc |-> "", yn |-> TRUE, kind |-> branch.kind,
                      eva |-> branch.eva, fresh |-> branch.fresh,
                      sigma |-> summed(extra(get_epsilon(profile, r)), branch.eva.val)]
        \* wave_paths[d - 1][-1] and wave_paths[d][0], d counted from 0 there
        pre_seg  == IF d = 1 THEN Len(segs) ELSE d - 1
        ph_pre   == segs[pre_seg].wave[Len(segs[pre_seg].wave)]
        ph_post  == segs[d].wave[1]
        interior ==
            LET dep0 == path[idisc.ind - 1].depth
                dep1 == path[idisc.ind].depth
                dep2 == path[idisc.ind + 1].depth
                pre  == IF dep0 < dep1 THEN "down"
                        ELSE IF dep0 = dep1 THEN "diff" ELSE "up"
                post == IF dep1 < dep2 THEN "down"
                        ELSE IF dep1 = dep2 THEN "diff" ELSE "up"
                type == IF pre = post THEN "trans"
                        ELSE IF "diff" \in {pre, post} THEN "diff" ELSE "refl"
                ph_above == IF pre = "down" THEN ph_pre ELSE ph_post
                ph_below == IF pre = "down" THEN ph_post ELSE ph_pre
            IN  IF idisc.ind + 1 > N THEN fail("IndexError")
                ELSE IF d > Len(segs) THEN fail("IndexError")
                ELSE IF type = "trans" /\ pre = "diff" THEN fail("KeyError")
                ELSE IF type = "trans" THEN
                    assigned("transmission", FNeg(FAdd(
                        slowness_root(r, evaluate_above(idisc.dep, ph_above), p),
                        FNeg(slowness_root(r, evaluate_below(idisc.dep, ph_below), p)))))
                ELSE IF type = "refl" /\ pre = "up" THEN
                    assigned("underside reflection", FAdd(
                        slowness_root(r, evaluate_below(idisc.dep, ph_pre), p),
                        slowness_root(r, evaluate_below(idisc.dep, ph_post), p)))
                ELSE IF type = "refl" /\ pre = "down" THEN
                    assigned("topside reflection", FNeg(FAdd(
                        slowness_root(r, evaluate_above(idisc.dep, ph_pre), p),
                        slowness_root(r, evaluate_above(idisc.dep, ph_post), p))))
                ELSE kept("diffracted")
        endpoint ==
            LET wave == IF idisc.ind = 1 THEN segs[1].wave[1]
                        ELSE segs[Len(segs)].wave[Len(segs[Len(segs)].wave)]
            IN  IF arrival.name[1] \in {"p", "s"} /\ idisc.ind = 1 THEN
                    IF layer_number_above(idisc.dep) = 0 THEN fail("LookupError")
                    ELSE assigned("endpoint", FNeg(
                        slowness_root(r, evaluate_above(idisc.dep, wave), p)))
                ELSE
                    assigned("endpoint",
                        slowness_root(r, evaluate_below(idisc.dep, wave), p))
        surface ==
            IF d > Len(segs) THEN fail("IndexError")
            ELSE assigned("surface reflection", FAdd(
                    slowness_root(r, evaluate_below(idisc.dep, ph_pre), p),
                    slowness_root(r, evaluate_below(idisc.dep, ph_post), p)))
    IN  done(IF HasDiff(arrival.name) /\ idisc.dep = cmb_depth THEN skip("excluded")
             ELSE IF ~(idisc.dep \in discs \/ d = 1) THEN skip("excluded")
             ELSE IF idisc.dep # 0 /\ idisc.ind # 1 THEN interior
             ELSE IF idisc.ind = 1 \/ idisc.ind = N THEN endpoint
             ELSE IF idisc.dep = 0 THEN surface
             ELSE kept("none"))

\* The loop over the boundary points: the list of the passes' results, cut
\* at the first pass that raises.
RECURSIVE assess_loop(_, _, _, _, _, _, _)
assess_loop(arrival, profile, segs, idiscs, d, eva, out) ==
    LET continue(a) ==
            IF a.exc # "" THEN Append(out, a)
            ELSE assess_loop(arrival, profile, segs, idiscs, d + 1, a.eva,
                             Append(out, a))
    IN  IF d > Len(idiscs) THEN out
        ELSE continue(assess_point(arrival, profile, segs, idiscs[d], d, eva))

assessments(arrival, profile, segs) ==
    assess_loop(arrival, profile, segs, assessed_points(arrival), 1,
                [set |-> FALSE, val |-> 0], <<>>)

\* discontinuity_coefficients(arrival, model, paths, wave_paths): the sum
\* over the boundary points marked yn, or the exception a pass raised.
discontinuity_coefficients(arrival, profile, segs) ==
    LET total(as) ==
            IF \E k \in 1..Len(as) : as[k].exc # "" THEN Raise(as[Len(as)].exc)
            ELSE Return([m1 \in 1..3 |->
                    FSum([k \in 1..Len(as) |->
                            IF as[k].yn THEN as[k].sigma[m1] ELSE 0])])
    IN  total(assessments(arrival, profile, segs))


\* ------------------------------------------------------------------------
\* ellipticipy variant: split_ray_path, classify_path, expected_delay_time
\* ------------------------------------------------------------------------

\* The value standing for +inf where the source tells it from nan.
Inf == 2000000000

\* np.log(a / b) in fixed point for a, b > 0: 2 * atanh((a - b) / (a + b)).
Ln(a, b) ==
    LET powers(z, z2) ==
            LET z3 == Quot(z2 * z, Scale)
                z5 == Quot(z3 * z2, Scale)
                z7 == Quot(z5 * z2, Scale)
                z9 == Quot(z7 * z2, Scale)
            IN  2 * (z + Quot(z3, 3) + Quot(z5, 5) + Quot(z7, 7) + Quot(z9, 9))
        series(z) == powers(z, Quot(z * z, Scale))
    IN  series(Quot((a - b) * Scale, a + b))

\* expected_delay_time(ray_param, depth0, depth1, wave, model), in 1e-3 s;
\* Inf when the logarithm or a slowness is infinite, NaN for 0 * inf.
expected_delay_time(ray_param, depth0, depth1, wave) ==
    LET n(radius, v) ==
            LET root(eta) == ClampedSqrt(eta * eta - ray_param * ray_param)
            IN  root(Quot(radius, v))
        general(radius0, radius1, slowness_sum) ==
            IF radius1 = 0 \/ radius0 = 0 THEN
                (IF slowness_sum = 0 THEN NaN ELSE Inf)
            ELSE Quot(slowness_sum * Abs(Ln(radius1, radius0)), 2)
        delay(radius0, radius1, v0, v1) ==
            IF v0 > 0 THEN
                IF v1 = 0 THEN Inf
                ELSE IF ray_param = 0 THEN
                    Quot((Quot(Scale * Scale, v0) + Quot(Scale * Scale, v1))
                         * Abs(radius1 - radius0), 2 * Scale)
                ELSE general(radius0, radius1, n(radius0, v0) + n(radius1, v1))
            ELSE 0
    IN  delay(radius_of_planet - depth0, radius_of_planet - depth1,
              IF depth1 >= depth0 THEN evaluate_below(depth0, wave)
              ELSE evaluate_above(depth0, wave),
              IF depth1 >= depth0 THEN evaluate_above(depth1, wave)
              ELSE evaluate_below(depth1, wave))

\* delay_x / delay_time - 1 in fixed point (Inf, NaN when not finite).
relative_error(delay_x, delay_time) ==
    IF delay_x = NaN THEN NaN
    ELSE IF delay_time = 0 THEN (IF delay_x = 0 THEN NaN ELSE Inf)
    ELSE IF delay_x = Inf THEN Inf
    ELSE Quot(delay_x * Scale, delay_time) - Scale

\* abs(a) < abs(b) in floating point: false when either is nan.
AbsLess(a, b) ==
    IF a = NaN \/ b = NaN THEN FALSE
    ELSE IF a = Inf THEN FALSE
    ELSE IF b = Inf THEN TRUE
    ELSE Abs(a) < Abs(b)

ClassifyPathFirstPoints(path) ==
    LET wave(delay_time, delay_p, delay_s) ==
            IF AbsLess(relative_error(delay_p, delay_time),
                       relative_error(delay_s, delay_time))
            THEN "p" ELSE "s"
        classified(point0, point1) ==
            IF point0.depth = point1.depth THEN "diff"
            ELSE wave((point1.time - point0.time) * Scale
                        - Quot(point0.p * Abs(point0.dist - point1.dist) * AngleUnitE4,
                               10),
                      expected_delay_time(point0.p, point0.depth, point1.depth, "p"),
                      expected_delay_time(point0.p, point0.depth, point1.depth, "s"))
    IN  classified(path[1], path[2])

ClassifyPathFartherWins(path) ==
    LET wave(delay_time, delay_p, delay_s) ==
            IF AbsLess(relative_error(delay_s, delay_time),
                       relative_error(delay_p, delay_time))
            THEN "p" ELSE "s"
        classified(point0, point1) ==
            IF point0.depth = point1.depth THEN "diff"
            ELSE wave((point1.time - point0.time) * Scale
                        - Quot(point0.p * Abs(point0.dist - point1.dist) * AngleUnitE4,
                               10),
                      expected_delay_time(point0.p, point0.depth, point1.depth, "p"),
                      expected_delay_time(point0.p, point0.depth, point1.depth, "s"))
    IN  IF path[1].depth < path[Len(path)].depth
        THEN classified(path[1], path[2])
        ELSE classified(path[Len(path) - 1], path[Len(path)])

\* classify_path(path, model): "p", "s" or "diff".
classify_path(path) ==
    LET n == Len(path)
        shallow_first == path[1].depth < path[n].depth
        wave(delay_time, delay_p, delay_s) ==
            IF AbsLess(relative_error(delay_p, delay_time),
                       relative_error(delay_s, delay_time))
            THEN "p" ELSE "s"
        classified(point0, point1) ==
            IF point0.depth = point1.depth THEN "diff"
            ELSE wave((point1.time - point0.time) * Scale
                        - Quot(point0.p * Abs(point0.dist - point1.dist) * AngleUnitE4,
                               10),
                      expected_delay_time(point0.p, point0.depth, point1.depth, "p"),
                      expected_delay_time(point0.p, point0.depth, point1.depth, "s"))
    IN  classified(IF shallow_first THEN path[1] ELSE path[n - 1],
                   IF shallow_first THEN path[2] ELSE path[n])

CandidatePathsNotClosed(arrival) ==
    LET pieces(full_path, idx) ==
            [k \in 1..Len(idx) |->
                SubSeq(full_path, IF k = 1 THEN 1 ELSE idx[k - 1], idx[k] - 1)]
    IN  pieces(arrival.path,
               SelectSeq([i \in 1..Len(arrival.path) |-> i],
                         LAMBDA i : i >= 2 /\ arrival.path[i].depth \in discs))

\* The candidate segments of split_ray_path (dpaths): the path cut at every
\* point but the first whose depth is a discontinuity depth, each piece but
\* the last closed with the first point of the next piece.
candidate_paths(arrival) ==
    LET full_path == arrival.path
        N   == Len(full_path)
        closed(splitted) ==
            [k \in 1..(Len(splitted) - 1) |-> Append(splitted[k], splitted[k + 1][1])]
        \* np.split(full_path, idx): piece k runs from cut k - 1 up to cut k
        split(idx) ==
            LET cut(k) == IF k = 0 THEN 1 ELSE IF k > Len(idx) THEN N + 1 ELSE idx[k]
            IN  closed([k \in 1..(Len(idx) + 1) |->
                            SubSeq(full_path, cut(k - 1), cut(k) - 1)])
    IN  split(SelectSeq([i \in 1..N |-> i],
                        LAMBDA i : i >= 2 /\ full_path[i].depth \in discs))

SplitRayPathKeepsDiffracted(arrival) ==
    LET tagged(dpaths) ==
            [k \in 1..Len(dpaths) |->
                [path |-> dpaths[k], wave |-> classify_path(dpaths[k])]]
    IN  tagged(candidate_paths(arrival))

\* split_ray_path(arrival, model): the candidate segments that are not
\* diffracted, each [path, wave].
split_ray_path(arrival) ==
    LET tagged(dpaths) ==
            [k \in 1..Len(dpaths) |->
                [path |-> dpaths[k], wave |-> classify_path(dpaths[k])]]
    IN  SelectSeq(tagged(candidate_paths(arrival)), LAMBDA seg : seg.wave # "diff")

\* ------------------------------------------------------------------------
\* ellipticipy variant: integral and discontinuity coefficients
\* ------------------------------------------------------------------------

\* The three coefficients of one segment (the body of the loop of
\* integral_coefficients).
ipy_segment_integral(arrival, profile, seg) ==
    LET n   == Len(seg.path)
        depth == [i \in 1..n |-> seg.path[i].depth]
        max_depth == MaxOf({seg.path[i].depth : i \in 1..n})
        v(dep) == IF dep # max_depth THEN evaluate_below(dep, seg.wave)
                  ELSE evaluate_above(max_depth, seg.wave)
        dvdr(dep) ==
            IF dep # max_depth
            THEN -(evaluate_derivative_below(dep, seg.wave).val[1])
            ELSE -(evaluate_derivative_above(max_depth, seg.wave).val[1])
        integrand(m, eta, dv, epsilon, distance) ==
            LET weighted(ratio) ==
                    IF ratio = NaN THEN NaN
                    ELSE Quot(Quot(ratio * epsilon, Scale) * lamda(m, distance), Scale)
            IN  IF eta = NaN THEN NaN
                ELSE weighted(FDiv(eta * dv * Scale, Scale - eta * dv))
        integration(f, vertical_slowness) ==
            FSum([k \in 1..(n - 1) |->
                IF \/ f[k] = NaN \/ f[k + 1] = NaN
                   \/ vertical_slowness[k] = NaN \/ vertical_slowness[k + 1] = NaN
                THEN NaN
                ELSE Quot((f[k + 1] + f[k])
                          * Abs(vertical_slowness[k + 1] - vertical_slowness[k]),
                          2 * Scale)])
        sampled(eta, vertical_slowness) ==
            [m1 \in 1..3 |->
                integration([i \in 1..n |->
                                integrand(m1 - 1, eta[i], dvdr(depth[i]),
                                          ipy_get_epsilon(profile, depth[i]),
                                          seg.path[i].dist)],
                            vertical_slowness)]
        slowness(eta) ==
            sampled(eta,
                    [i \in 1..n |->
                        IF eta[i] = NaN THEN NaN
                        ELSE ClampedSqrt(eta[i] * eta[i]
                                         - arrival.ray_param * arrival.ray_param)])
    IN  slowness([i \in 1..n |-> FDiv(radius_of_planet - depth[i], v(depth[i]))])

\* integral_coefficients(arrival, model) of the ellipticipy variant.
ipy_integral_coefficients(arrival, profile) ==
    LET total(segs) ==
            [m1 \in 1..3 |->
                FSum([x \in 1..Len(segs) |->
                        ipy_segment_integral(arrival, profile, segs[x])[m1]])]
    IN  total(split_ray_path(arrival))

\* The signed vertical slowness with the velocity always taken below the
\* point.
SignedVerticalSlownessFromBelow(disc_point, neighbour_point, phase) ==
    LET ray_param == disc_point.p
        depth  == disc_point.depth
        neighbour_depth == neighbour_point.depth
        signed(vertical_slowness) ==
            IF vertical_slowness = NaN THEN NaN
            ELSE -Sign(depth - neighbour_depth) * vertical_slowness
        root(eta) ==
            signed(IF neighbour_depth = depth THEN 0
                   ELSE IF eta = NaN THEN NaN
                   ELSE ClampedSqrt(eta * eta - ray_param * ray_param))
    IN  root(FDiv(radius_of_planet - depth, evaluate_below(depth, phase)))

\* -sign * vertical_slowness of discontinuity_contribution: the clamped
\* vertical slowness on the side of disc_point where neighbour_point lies,
\* zero when both are at one depth, positive when the neighbour is deeper.
signed_vertical_slowness(disc_point, neighbour_point, phase) ==
    LET ray_param == disc_point.p
        depth  == disc_point.depth
        neighbour_depth == neighbour_point.depth
        signed(vertical_slowness) ==
            IF vertical_slowness = NaN THEN NaN
            ELSE -Sign(depth - neighbour_depth) * vertical_slowness
        root(eta) ==
            signed(IF neighbour_depth = depth THEN 0
                   ELSE IF eta = NaN THEN NaN
                   ELSE ClampedSqrt(eta * eta - ray_param * ray_param))
    IN  root(FDiv(radius_of_planet - depth,
                  IF neighbour_depth >= depth THEN evaluate_below(depth, phase)
                  ELSE evaluate_above(depth, phase)))

\* discontinuity_contribution(points, phase, model): the coefficients of one
\* end of a segment; disc_point is the end, neighbour_point the point next
\* to it inside the segment.
discontinuity_contribution(disc_point, neighbour_point, phase, profile) ==
    LET distance == disc_point.dist
        depth  == disc_point.depth
        contribution(factor) ==
            [m1 \in 1..3 |->
                IF factor = NaN THEN NaN
                ELSE Quot(factor
                          * ipy_get_epsilon(profile, depth) * lamda(m1 - 1, distance),
                          Scale * Scale)]
    IN  contribution(signed_vertical_slowness(disc_point, neighbour_point, phase))

\* discontinuity_coefficients(arrival, model) of the ellipticipy variant.
ipy_discontinuity_coefficients(arrival, profile) ==
    LET ends(seg) ==
            LET n == Len(seg.path)
                start == discontinuity_contribution(
                            seg.path[1], seg.path[2], seg.wave, profile)
                end == discontinuity_contribution(
                            seg.path[n], seg.path[n - 1], seg.wave, profile)
            IN  [m1 \in 1..3 |-> FAdd(start[m1], end[m1])]
        total(segs) ==
            [m1 \in 1..3 |-> FSum([x \in 1..Len(segs) |-> ends(segs[x])[m1]])]
    IN  total(split_ray_path(arrival))

\* ------------------------------------------------------------------------
\* The ray tracer (TauPyModel.get_ray_paths) is a collaborator.  Its answers
\* are drawn from a catalogue of rays through the velocity model above.
\* A path point is [p, time, dist, depth]: time in s, dist in units of
\* pi/12, depth in m; an arrival carries name (its letters), distance and
\* purist_distance (1e-10 degree), ray_param (s/rad), source_depth and path.
\* purist_offset is what the purist distance of the ray differs by from the
\* distance asked for.
\* ------------------------------------------------------------------------

\* Distances in units of 1e-10 degree: 0.05 degree, the tolerance 0.0001
\* degree of get_taup_arrival, and the 1e-10 degree of the zero-distance
\* replacement.
TwentiethDegree == 5 * Hecto * Hecto * Hecto * Hecto

PuristTolerance == Hecto * Hecto * Hecto

TinyDistance == 1

ray(p, times, dists, depths) ==
    [i \in 1..Len(depths) |->
        [p |-> p, time |-> times[i], dist |-> dists[i], depth |-> depths[i]]]

Catalogue ==
    << [name |-> <<"P">>, ray_param |-> 25, source_depth |-> 0,
        purist_offset |-> 0,
        path |-> ray(25, <<0, 16, 24, 32, 48>>, <<0, 1, 2, 3, 4>>,
                     <<0, 100, 150, 100, 0>>)],
       [name |-> <<"S">>, ray_param |-> 50, source_depth |-> 0,
        purist_offset |-> 0,
        path |-> ray(50, <<0, 30, 46, 62, 92>>, <<0, 1, 2, 3, 4>>,
                     <<0, 100, 150, 100, 0>>)],
       [name |-> <<"P", "c", "P">>, ray_param |-> 10, source_depth |-> 0,
        purist_offset |-> 0,
        path |-> ray(10, <<0, 14, 26, 38, 52>>, <<0, 1, 2, 3, 4>>,
                     <<0, 100, 200, 100, 0>>)],
       [name |-> <<"P", "c", "P">>, ray_param |-> 12, source_depth |-> 0,
        purist_offset |-> PuristTolerance,
        path |-> ray(12, <<0, 14, 26, 38, 52>>, <<0, 1, 2, 3, 4>>,
                     <<0, 100, 200, 100, 0>>)],
       [name |-> <<"P", "c", "P">>, ray_param |-> 1, source_depth |-> 0,
        purist_offset |-> 0,
        path |-> ray(1, <<0, 12, 22, 32, 44>>, <<0, 0, 0, 0, 0>>,
                     <<0, 100, 200, 100, 0>>)],
       [name |-> <<"P", "c", "P">>, ray_param |-> 0, source_depth |-> 0,
        purist_offset |-> 0,
        path |-> ray(0, <<0, 12, 22, 32, 44>>, <<0, 0, 0, 0, 0>>,
                     <<0, 100, 200, 100, 0>>)],
       [name |-> <<"P", "c", "S">>, ray_param |-> 10, source_depth |-> 0,
        purist_offset |-> 0,
        path |-> ray(10, <<0, 14, 26, 47, 72>>, <<0, 1, 2, 3, 4>>,
                     <<0, 100, 200, 100, 0>>)],
       [name |-> <<"P", "K", "I", "K", "P">>, ray_param |-> 6,
        source_depth |-> 0, purist_offset |-> 0,
        path |-> ray(6, <<0, 26, 42, 47, 52, 68, 94>>,
                     <<0, 2, 3, 5, 7, 8, 10>>,
                     <<0, 200, 300, 340, 300, 200, 0>>)],
       [name |-> <<"P", "K", "I", "K", "P">>, ray_param |-> 5,
        source_depth |-> 0, purist_offset |-> 0,
        path |-> ray(5, <<0, 25, 41, 47, 53, 69, 94>>,
                     <<0, 2, 3, 5, 7, 8, 10>>,
                     <<0, 200, 300, 350, 300, 200, 0>>)],
       [name |-> <<"P", "K", "I", "K", "P">>, ray_param |-> 1,
        source_depth |-> 0, purist_offset |-> 0,
        path |-> ray(1, <<0, 23, 38, 50, 62, 77, 100>>,
                     <<0, 2, 3, 6, 9, 10, 12>>,
                     <<0, 200, 300, 390, 300, 200, 0>>)],
       [name |-> <<"P", "K", "I", "K", "P">>, ray_param |-> 0,
        source_depth |-> 0, purist_offset |-> 0,
        path |-> ray(0, <<0, 22, 37, 48, 59, 74, 96>>,
                     <<0, 0, 0, 0, 12, 12, 12>>,
                     <<0, 200, 300, 400, 300, 200, 0>>)],
       [name |-> <<"p", "P">>, ray_param |-> 25, source_depth |-> 100,
        purist_offset |-> 0,
        path |-> ray(25, <<0, 16, 32, 40, 48, 64>>, <<0, 1, 2, 3, 4, 5>>,
                     <<100, 0, 100, 150, 100, 0>>)],
       [name |-> <<"P", "d", "i", "f", "f">>, ray_param |-> 18,
        source_depth |-> 0, purist_offset |-> 0,
        path |-> ray(18, <<0, 15, 25, 34, 44, 59>>, <<0, 1, 2, 4, 5, 6>>,
                     <<0, 100, 200, 200, 100, 0>>)],
       \* a leg that runs along a discontinuity other than the core-mantle
       \* boundary: here the diffraction along the inner-core boundary
       [name |-> <<"P", "K", "d", "i", "f", "f", "P">>, ray_param |-> 12,
        source_depth |-> 0, purist_offset |-> 0,
        path |-> ray(12, <<0, 26, 42, 50, 66, 92>>, <<0, 2, 3, 5, 6, 8>>,
                     <<0, 200, 300, 300, 200, 0>>)],
       \* a ray that grazes the core-mantle boundary: its ray parameter, as
       \* the ray tracer rounds it, is one step of the grid above r / v there
       [name |-> <<"S", "c", "S">>, ray_param |-> 34, source_depth |-> 0,
        purist_offset |-> 0,
        path |-> ray(34, <<0, 38, 66, 94, 132>>, <<0, 2, 4, 6, 8>>,
                     <<0, 100, 200, 100, 0>>)] >>

\* ------------------------------------------------------------------------
\* Arrivals and the answers of the ray tracer
\* ------------------------------------------------------------------------

\* Largest number of arrivals in one answer of the ray tracer.
MaxArrivals == 2

\* Deepest nesting of ellipticity_coefficients calls that is followed.
MaxDepth == 2

\* An Arrival object; path <<>> stands for path None.
Arrival(entry, distance, with_path) ==
    [name |-> entry.name, ray_param |-> entry.ray_param,
     source_depth |-> entry.source_depth,
     distance |-> distance,
     purist_distance |-> distance + entry.purist_offset,
     path |-> IF with_path THEN entry.path ELSE <<>>]

NoArrival ==
    [name |-> <<>>, ray_param |-> 0, source_depth |-> 0, distance |-> 0,
     purist_distance |-> 0, path |-> <<>>]

\* (model.model.radius_of_planet - bot_dep) * 1e3, in metres.
centre_gap(path) == radius_of_planet - MaxOf(Depths(path))

NearCentreInclusive(arrival) == centre_gap(arrival.path) <= 50

\* The test that selects centre_of_planet_coefficients.
near_centre(arrival) == centre_gap(arrival.path) < 50

\* Whether a catalogued ray arrives at the requested distance: only a
\* vertical ray (ray parameter 0, no distance travelled) arrives at distance
\* 0, only a ray of the smallest ray parameter at a distance below the
\* resolution of the path grid.
arrives_at(entry, distance) ==
    LET travelled == entry.path[Len(entry.path)].dist
    IN  IF distance = 0 THEN travelled = 0 /\ entry.ray_param = 0
        ELSE IF Abs(distance) < PuristTolerance
        THEN travelled = 0 /\ entry.ray_param # 0
        ELSE travelled # 0

\* model.get_ray_paths(source_depth_in_km, distance_in_degree, phase_list):
\* the answers the ray tracer may give, each a list of arrivals.  A call
\* nested  depth  deep is answered with a ray near the centre only while
\* depth is below MaxDepth.
get_ray_paths(source_depth, distance, phase, depth) ==
    LET rays == {k \in 1..Len(Catalogue) :
                    /\ Catalogue[k].name = phase
                    /\ Catalogue[k].source_depth = source_depth
                    /\ arrives_at(Catalogue[k], distance)
                    /\ (depth < MaxDepth
                        \/ centre_gap(Catalogue[k].path) >= 50)}
        arrivals == {Arrival(Catalogue[k], distance, TRUE) : k \in rays}
    IN  UNION {[1..n -> arrivals] : n \in 0..MaxArrivals}

\* The arrivals of an answer that pass the filter of get_taup_arrival.
at_distance(arrivals, distance) ==
    SelectSeq(arrivals,
              LAMBDA x : Abs(x.purist_distance - distance) < PuristTolerance)

GetTaupArrivalUnchecked(arrivals0, distance, arrival_index) ==
    LET arrivals == at_distance(arrivals0, distance)
    IN  IF arrival_index >= Len(arrivals) THEN Raise("IndexError")
        ELSE Return(arrivals[arrival_index + 1])

\* get_taup_arrival, from the answer arrivals0 of the ray tracer onwards.
get_taup_arrival(arrivals0, distance, arrival_index) ==
    LET arrivals == at_distance(arrivals0, distance)
    IN  IF Len(arrivals) = 0 THEN Raise("PhaseError")
        ELSE IF arrival_index >= Len(arrivals) THEN Raise("IndexError")
        ELSE Return(arrivals[arrival_index + 1])

\* get_correct_taup_arrival, from the answer new_arrivals of the ray tracer
\* onwards: argmin of an empty array raises ValueError; argmin returns the
\* first index of the smallest ray-parameter difference.
get_correct_taup_arrival(arrival, new_arrivals) ==
    LET diff(i) == Abs(new_arrivals[i].ray_param - arrival.ray_param)
        index == CHOOSE i \in 1..Len(new_arrivals) :
                    /\ \A j \in 1..Len(new_arrivals) : diff(i) <= diff(j)
                    /\ \A j \in 1..(i - 1) : diff(j) > diff(i)
    IN  IF Len(new_arrivals) = 0 THEN Raise("ValueError")
        ELSE Return(new_arrivals[index])

CentreOfPlanetMidpoint(arrival, arrival1, arrival2, coeffs1, coeffs2) ==
    Return([i \in 1..Len(coeffs1) |->
              FAdd(coeffs1[i], FDiv(FAdd(coeffs2[i], FNeg(coeffs1[i])), 2))])

\* centre_of_planet_coefficients, the interpolation: the ratio of distance
\* differences is held as a fraction in lowest terms.
centre_of_planet_coefficients(arrival, arrival1, arrival2, coeffs1, coeffs2) ==
    LET num == arrival.distance - arrival1.distance
        den == arrival2.distance - arrival1.distance
        g   == IF num = 0 THEN Abs(den) ELSE Gcd(Abs(num), Abs(den))
    IN  IF den = 0 THEN Raise("ZeroDivisionError")
        ELSE Return([i \in 1..Len(coeffs1) |->
                FAdd(coeffs1[i],
                     FDiv(FMul(Quot(num, g), FAdd(coeffs2[i], FNeg(coeffs1[i]))),
                          Quot(den, g)))])

SumOfIntegralOnly(ray_sigma, disc_sigma) == [x \in 1..3 |-> ray_sigma[x]]

\* sigma = [ray_sigma[x] + disc_sigma[x] for x in [0, 1, 2]]
sum_contributions(ray_sigma, disc_sigma) ==
    [x \in 1..3 |-> FAdd(ray_sigma[x], disc_sigma[x])]

\* The direct evaluation of the ellipticity variant: ray_path, then
\* integral_coefficients, discontinuity_coefficients and their sum.
direct_coefficients(arrival, profile) ==
    LET summed(ray_sigma, disc) ==
            IF disc.exc # "" THEN
                [exc |-> disc.exc, ray_sigma |-> ray_sigma, disc_sigma |-> <<>>,
                 sigma |-> <<>>]
            ELSE [exc |-> "", ray_sigma |-> ray_sigma, disc_sigma |-> disc.val,
                  sigma |-> sum_contributions(ray_sigma, disc.val)]
        evaluated(paths) ==
            IF paths.exc # "" THEN
                [exc |-> paths.exc, ray_sigma |-> <<>>, disc_sigma |-> <<>>,
                 sigma |-> <<>>]
            ELSE summed(integral_coefficients(arrival, profile, paths.segs),
                        discontinuity_coefficients(arrival, profile, paths.segs))
    IN  evaluated(ray_path(arrival))

\* The evaluation of individual_ellipticity_coefficients (ellipticipy).
ipy_direct_coefficients(arrival, profile) ==
    LET summed(ray_sigma, disc_sigma) ==
            [exc |-> "", ray_sigma |-> ray_sigma, disc_sigma |-> disc_sigma,
             sigma |-> sum_contributions(ray_sigma, disc_sigma)]
    IN  summed(ipy_integral_coefficients(arrival, profile),
               ipy_discontinuity_coefficients(arrival, profile))

\* ------------------------------------------------------------------------
\* The program as a state machine
\* ------------------------------------------------------------------------

VARIABLES
    package,        \* which variant of tools.py the process has imported
    v_mod,          \* the attributes attached to the velocity model object
    lod_of_profile, \* the length of day the stored profile was computed
                    \* with, 0 when there is none (history)
    writes,         \* per length of day, how often the profile was written
                    \* on the model object (history)
    call,           \* the last call of the API and its arguments
    stack,          \* the frames of the coefficient call in progress
    log,            \* what the call in progress has done (history)
    result          \* the outcome of the last call

vars == <<package, v_mod, lod_of_profile, writes, call, stack, log, result>>

\* Largest order magnitude passed to weighted_alp2.
MaxOrder == 4

\* Largest arrival_index of a [phase, distance, source_depth, index] list.
MaxIndex == 1

\* Largest number of profile writes on the model object that is followed.
MaxWrites == 2

Packages == {"ellipticity", "ellipticipy"}

Orders == (0 - MaxOrder)..MaxOrder

\* Angles passed to weighted_alp2, in units of pi/12.
Thetas == {0, 2, 3, 6, 9}

HalfDay == Quot(EARTH_LOD, 2)

Lods == {EARTH_LOD, HalfDay}

\* What is passed as the model: a TauPyModel, its TauModel, or something
\* that is neither a model nor the name of one.
ModelKinds == {"TauPyModel", "TauModel", "other"}

\* Inputs of correction_from_coefficients: coefficients in 1e-3 s, angles
\* in degrees.
CoefficientInputs == {<<-932, -689, -882>>, <<100, 0, -300>>}

Azimuths == {0, 45, 90, 180}

Latitudes == {-45, 0, 30, 90}

InputDistances == {0, TwentiethDegree, 3 * TwentiethDegree}

SpecPhases == {<<"P", "c", "P">>, <<"P", "K", "I", "K", "P">>}

\* The arrival argument of ellipticity_coefficients (ellipticity variant) is
\* a list [phase, distance, source_depth, index] or an Arrival object.
ListArgument(phase, distance, source_depth, index) ==
    [spec |-> <<phase, distance, source_depth, index>>]

\* isinstance(arrival, list)
is_list(arrival) == "spec" \in DOMAIN arrival

\* The Arrival objects passed in: every catalogued ray at 0.15 degree (the
\* vertical ray at 0), the rays that bottom near the centre at 0.05 degree
\* as well; with their paths, and for the phases of SpecPhases also without.
InputArrivals ==
    {Arrival(Catalogue[at[1]], at[2], at[3]) :
        at \in {x \in (1..Len(Catalogue)) \X InputDistances \X BOOLEAN :
                  /\ arrives_at(Catalogue[x[1]], x[2])
                  /\ x[2] = TwentiethDegree
                        => centre_gap(Catalogue[x[1]].path) < 50
                  /\ ~x[3] => Catalogue[x[1]].name \in SpecPhases}}

ArrivalArguments ==
    {ListArgument(phase, d, 0, index) :
        phase \in SpecPhases, d \in InputDistances, index \in 0..MaxIndex}
    \cup InputArrivals

\* The Arrivals lists passed to the ellipticipy ellipticity_coefficients:
\* answers of the ray tracer for a reflected phase.
ArrivalsInputs ==
    UNION {get_ray_paths(0, d, <<"P", "c", "P">>, 1) : d \in InputDistances}

hasattr(obj, attr) == attr \in DOMAIN obj

NoAttributes == [attr \in {} |-> <<>>]

\* The profiles model_epsilon computes, per length of day.
epsilon_profiles == [lod \in Lods |-> model_epsilon(lod)]

ipy_epsilon_profiles == [lod \in Lods |-> ipy_model_epsilon(lod)]

\* What the evaluation of a coefficient reads of an arrival.
traced(arrival) ==
    [name |-> arrival.name, ray_param |-> arrival.ray_param,
     source_depth |-> arrival.source_depth, path |-> arrival.path]

\* direct_coefficients and ipy_direct_coefficients, evaluated once for every
\* catalogued ray and every profile.
direct_table ==
    [r \in {traced(Catalogue[k]) : k \in 1..Len(Catalogue)},
     profile \in {epsilon_profiles[lod] : lod \in Lods} |->
        direct_coefficients(r, profile)]

ipy_direct_table ==
    [r \in {traced(Catalogue[k]) : k \in 1..Len(Catalogue)},
     profile \in {ipy_epsilon_profiles[lod] : lod \in Lods} |->
        ipy_direct_coefficients(r, profile)]

\* The object after the attributes of  profile  have been assigned.
setattrs(obj, profile) ==
    [attr \in DOMAIN obj \cup DOMAIN profile |->
        IF attr \in DOMAIN profile THEN profile[attr] ELSE obj[attr]]

ProfileAlwaysMissing(obj, attr) == TRUE

\* if not hasattr(v_mod, "epsilon") / if not hasattr(v_mod, "top_epsilon")
profile_missing(obj, attr) == ~hasattr(obj, attr)

NoCall == [op |-> "none", args |-> <<>>]

Init ==
    /\ package \in Packages
    /\ v_mod = NoAttributes
    /\ lod_of_profile = 0
    /\ writes = [lod \in Lods |-> 0]
    /\ call = NoCall
    /\ stack = <<>>
    /\ log = <<>>
    /\ result = NoOutcome

Idle == stack = <<>>

\* The caller is between two calls of the API.
Ready == Idle /\ call = NoCall

\* The caller has the outcome of its call and goes on.
CallerResumes ==
    /\ Idle
    /\ call # NoCall
    /\ call' = NoCall
    /\ result' = NoOutcome
    /\ log' = <<>>
    /\ UNCHANGED <<package, v_mod, lod_of_profile, writes, stack>>

Top == stack[Len(stack)]

Depth == Len(stack)

SetTop(frame) == [stack EXCEPT ![Len(stack)] = frame]

\* weighted_alp2(m, theta)
WeightedAlp2(m, theta) ==
    /\ Ready
    /\ call' = [op |-> "weighted_alp2", args |-> <<m, theta>>]
    /\ result' = weighted_alp2(m, theta)
    /\ log' = <<>>
    /\ UNCHANGED <<package, v_mod, lod_of_profile, writes, stack>>

\* correction_from_coefficients(coefficients, azimuth, source_latitude)
CorrectionFromCoefficients(coefficients, azimuth, source_latitude) ==
    /\ package = "ellipticipy"
    /\ Ready
    /\ call' = [op |-> "correction_from_coefficients",
                args |-> <<coefficients, azimuth, source_latitude>>]
    /\ result' = Return(<<correction_from_coefficients(
                             coefficients, azimuth, source_latitude)>>)
    /\ log' = <<>>
    /\ UNCHANGED <<package, v_mod, lod_of_profile, writes, stack>>

\* Material-property tags passed to the depth-derivative query.
PropTags == {"p", "s", "d", "r", "P", "S", "D", "R", "rd", "RD", "", "v", "ps"}

\* Depths the depth-derivative query is asked at: inside each layer and at
\* the layer boundaries.
QueryDepths == {50, 100, 150, 200, 250, 300, 350}

\* evaluate_derivative_below(model, depth, prop) and
\* evaluate_derivative_above(model, depth, prop)
EvaluateDerivative(side, depth, prop) ==
    /\ Ready
    /\ call' = [op |-> "evaluate_derivative_" \o side, args |-> <<depth, prop>>]
    /\ result' = IF side = "below" THEN evaluate_derivative_below(depth, prop)
                 ELSE evaluate_derivative_above(depth, prop)
    /\ log' = <<>>
    /\ UNCHANGED <<package, v_mod, lod_of_profile, writes, stack>>

\* get_epsilon(model, radius) of the ellipticity variant and
\* get_epsilon(model, depth) of the ellipticipy variant; the attributes of
\* the profile are read, AttributeError when the model has none.
GetEpsilon(x) ==
    /\ Ready
    /\ call' = [op |-> "get_epsilon", args |-> <<x>>]
    /\ result' =
          IF package = "ellipticity" THEN
              IF hasattr(v_mod, "epsilon")
              THEN Return(<<get_epsilon(v_mod, x)>>)
              ELSE Raise("AttributeError")
          ELSE
              IF hasattr(v_mod, "bot_epsilon")
              THEN Return(<<ipy_get_epsilon(v_mod, x)>>)
              ELSE Raise("AttributeError")
    /\ log' = <<>>
    /\ UNCHANGED <<package, v_mod, lod_of_profile, writes, stack>>

\* paths, wave_paths = ray_path(arrival, model) of the ellipticity variant
RayPath(arrival) ==
    /\ package = "ellipticity"
    /\ Ready
    /\ call' = [op |-> "ray_path", args |-> <<arrival>>]
    /\ LET returned(out) ==
               result' = IF out.exc # "" THEN Raise(out.exc) ELSE Return(out.segs)
       IN  returned(ray_path(arrival))
    /\ log' = <<>>
    /\ UNCHANGED <<package, v_mod, lod_of_profile, writes, stack>>

\* paths, waves = split_ray_path(arrival, model) of the ellipticipy variant;
\* the log holds dpaths and dwaves, the candidate segments and their tags.
SplitRayPath(arrival) ==
    /\ package = "ellipticipy"
    /\ Ready
    /\ call' = [op |-> "split_ray_path", args |-> <<arrival>>]
    /\ result' = Return(split_ray_path(arrival))
    /\ LET classified(dpaths) ==
               log' = <<[event |-> "classified", dpaths |-> dpaths,
                         dwaves |-> [k \in 1..Len(dpaths) |->
                                        classify_path(dpaths[k])]]>>
       IN  classified(candidate_paths(arrival))
    /\ UNCHANGED <<package, v_mod, lod_of_profile, writes, stack>>

\* discontinuity_coefficients(arrival, model, paths, wave_paths) of the
\* ellipticity variant, paths and wave_paths being those of ray_path; the
\* log holds the boundary points of the loop and what each pass left.
DiscontinuityCoefficients(arrival) ==
    /\ package = "ellipticity"
    /\ Ready
    /\ ray_path(arrival).exc = ""
    /\ call' = [op |-> "discontinuity_coefficients", args |-> <<arrival>>]
    /\ LET assessed(segs) ==
               IF ~hasattr(v_mod, "epsilon")
               THEN /\ result' = Raise("AttributeError")
                    /\ log' = <<>>
               ELSE /\ result' = discontinuity_coefficients(arrival, v_mod, segs)
                    /\ log' = <<[event |-> "assessed",
                                 idiscs |-> assessed_points(arrival),
                                 passes |-> assessments(arrival, v_mod, segs)]>>
       IN  assessed(ray_path(arrival).segs)
    /\ UNCHANGED <<package, v_mod, lod_of_profile, writes, stack>>

\* discontinuity_coefficients(arrival, model) of the ellipticipy variant; the
\* log holds, for each segment, the two calls of discontinuity_contribution
\* and what they returned.
IpyDiscontinuityCoefficients(arrival) ==
    /\ package = "ellipticipy"
    /\ Ready
    /\ call' = [op |-> "discontinuity_coefficients", args |-> <<arrival>>]
    /\ LET contributed(segs) ==
               IF ~hasattr(v_mod, "bot_epsilon")
               THEN /\ result' = Raise("AttributeError")
                    /\ log' = <<>>
               ELSE /\ result' = Return(ipy_discontinuity_coefficients(arrival, v_mod))
                    /\ log' = [k \in 1..(2 * Len(segs)) |->
                                 LET seg == segs[(k + 1) \div 2]
                                     n == Len(seg.path)
                                     at == IF k % 2 = 1 THEN 1 ELSE n
                                     by == IF k % 2 = 1 THEN 2 ELSE n - 1
                                 IN  [event |-> "contribution",
                                      disc_point |-> seg.path[at],
                                      neighbour_point |-> seg.path[by],
                                      phase |-> seg.wave,
                                      sigma |-> discontinuity_contribution(
                                                  seg.path[at], seg.path[by],
                                                  seg.wave, v_mod)]]
       IN  contributed(split_ray_path(arrival))
    /\ UNCHANGED <<package, v_mod, lod_of_profile, writes, stack>>

\* The profile is written: the attributes are assigned whether or not they
\* exist already.
WriteProfile(profile, lod) ==
    /\ v_mod' = setattrs(v_mod, profile)
    /\ lod_of_profile' = lod
    /\ writes' = [writes EXCEPT ![lod] = IF @ < MaxWrites THEN @ + 1 ELSE @]

TotalWrites == SumSeq([k \in 1..2 |-> writes[IF k = 1 THEN EARTH_LOD ELSE HalfDay]])

\* model_epsilon(model, lod) of the ellipticity variant
ModelEpsilon(lod) ==
    /\ package = "ellipticity"
    /\ Ready
    /\ TotalWrites < MaxWrites
    /\ WriteProfile(epsilon_profiles[lod], lod)
    /\ call' = [op |-> "model_epsilon", args |-> <<lod>>]
    /\ result' = Return(<<>>)
    /\ log' = <<>>
    /\ UNCHANGED <<package, stack>>

\* model_epsilon(model, lod) of the ellipticipy variant
IpyModelEpsilon(lod) ==
    /\ package = "ellipticipy"
    /\ Ready
    /\ TotalWrites < MaxWrites
    /\ WriteProfile(ipy_epsilon_profiles[lod], lod)
    /\ call' = [op |-> "model_epsilon", args |-> <<lod>>]
    /\ result' = Return(<<>>)
    /\ log' = <<>>
    /\ UNCHANGED <<package, stack>>

\* ------------------------------------------------------------------------
\* ellipticity_coefficients of the ellipticity variant, one action per
\* stretch of code between two answers of the ray tracer
\* ------------------------------------------------------------------------

\* A frame of ellipticity_coefficients: arrival is the parameter, which the
\* function reassigns; arrival1, arrival2 and coeffs1 are the locals of
\* centre_of_planet_coefficients.
Frame(arrival) ==
    [pc |-> "arrival", arrival |-> arrival,
     arrival1 |-> NoArrival, arrival2 |-> NoArrival, coeffs1 |-> <<>>]

\* What a call of the ray tracer is recorded as.
Traced(caller, distance, answer) ==
    [event |-> "get_ray_paths", caller |-> caller, distance |-> distance,
     none_returned |-> answer = <<>>,
     none_at_distance |-> at_distance(answer, distance) = <<>>]

\* What a decision of the aggregator is recorded as.
Assessed(event, arrival, out) ==
    [event |-> event, gap |-> centre_gap(arrival.path),
     distance |-> arrival.distance, exc |-> out.exc,
     ray_sigma |-> out.ray_sigma, disc_sigma |-> out.disc_sigma,
     sigma |-> out.sigma]

Interpolated(coeffs1, coeffs2, sigma) ==
    [event |-> "interpolated", coeffs1 |-> coeffs1, coeffs2 |-> coeffs2,
     sigma |-> sigma]

\* An exception leaves every frame.
Abort(exc, events) ==
    /\ stack' = <<>>
    /\ result' = Raise(exc)
    /\ log' = events

\* The top frame of stk returns value: the caller is the API, or
\* centre_of_planet_coefficients waiting for coeffs1 (it then calls
\* ellipticity_coefficients(arrival2, model)) or for coeffs2 (it then
\* interpolates and returns in turn).
RECURSIVE Unwind(_, _, _)
Unwind(stk, value, events) ==
    LET rest == SubSeq(stk, 1, Len(stk) - 1)
        caller == rest[Len(rest)]
        coeffs == centre_of_planet_coefficients(
                      caller.arrival, caller.arrival1, caller.arrival2,
                      caller.coeffs1, value)
    IN  IF rest = <<>> THEN
            [stack |-> <<>>, result |-> Return(value), log |-> events]
        ELSE IF caller.pc = "coeffs1" THEN
            [stack |-> Append([rest EXCEPT ![Len(rest)] =
                                  [@ EXCEPT !.coeffs1 = value, !.pc = "coeffs2"]],
                              Frame(caller.arrival2)),
             result |-> NoOutcome, log |-> events]
        ELSE IF coeffs.exc # "" THEN
            [stack |-> <<>>, result |-> coeffs, log |-> events]
        ELSE Unwind(rest, coeffs.val,
                    Append(events,
                           Interpolated(caller.coeffs1, value, coeffs.val)))

ReturnValue(value, events) ==
    LET after == Unwind(stack, value, events)
    IN  /\ stack' = after.stack
        /\ result' = after.result
        /\ log' = after.log

\* ellipticity_coefficients(arrival, model, lod), up to the arrival: the
\* type check of the model and the profile written if there is none.
EllipticityCoefficients(arrival, model_kind, lod) ==
    /\ package = "ellipticity"
    /\ Ready
    /\ call' = [op |-> "ellipticity_coefficients",
                args |-> <<arrival, model_kind, lod>>]
    /\ log' = <<>>
    /\ IF model_kind # "TauPyModel" THEN
           /\ result' = Raise("TypeError")
           /\ UNCHANGED <<v_mod, lod_of_profile, writes, stack>>
       ELSE
           /\ result' = NoOutcome
           /\ stack' = <<Frame(arrival)>>
           /\ IF profile_missing(v_mod, "epsilon")
              THEN WriteProfile(epsilon_profiles[lod], lod)
              ELSE UNCHANGED <<v_mod, lod_of_profile, writes>>
    /\ UNCHANGED package

\* arrival = get_taup_arrival(arrival[0], arrival[1], arrival[2], arrival[3])
GetTaupArrival ==
    /\ ~Idle /\ Top.pc = "arrival" /\ is_list(Top.arrival)
    /\ LET spec == Top.arrival.spec
       IN  \E answer \in get_ray_paths(spec[3], spec[2], spec[1], Depth) :
             LET out == get_taup_arrival(answer, spec[2], spec[4])
                 events == Append(log, Traced("get_taup_arrival", spec[2], answer))
             IN  IF out.exc # "" THEN Abort(out.exc, events)
                 ELSE /\ stack' = SetTop([Top EXCEPT !.arrival = out.val,
                                                     !.pc = "distance"])
                      /\ log' = events
                      /\ UNCHANGED result
    /\ UNCHANGED <<package, v_mod, lod_of_profile, writes, call>>

CorrectedAtSameDistance(arrival, extra_distance, depth) ==
    {[out |-> get_correct_taup_arrival(arrival, answer),
      event |-> Traced("get_correct_taup_arrival", arrival.distance, answer)] :
        answer \in get_ray_paths(arrival.source_depth, arrival.distance,
                                 arrival.name, depth)}

\* The ways a call get_correct_taup_arrival(arrival, model, extra_distance)
\* can go, one per answer of the ray tracer; the arrival obtained is used
\* by a call nested  depth  deep.
corrected(arrival, extra_distance, depth) ==
    LET distance == arrival.distance + extra_distance
    IN  {[out |-> get_correct_taup_arrival(arrival, answer),
          event |-> Traced("get_correct_taup_arrival", distance, answer)] :
            answer \in get_ray_paths(arrival.source_depth, distance,
                                     arrival.name, depth)}

\* An Arrival whose path is None: arrival = get_correct_taup_arrival(arrival)
GetCorrectTaupArrival ==
    /\ ~Idle /\ Top.pc = "arrival" /\ ~is_list(Top.arrival)
    /\ Top.arrival.path = <<>>
    /\ \E way \in corrected(Top.arrival, 0, Depth) :
          IF way.out.exc # "" THEN Abort(way.out.exc, Append(log, way.event))
          ELSE /\ stack' = SetTop([Top EXCEPT !.arrival = way.out.val,
                                              !.pc = "distance"])
               /\ log' = Append(log, way.event)
               /\ UNCHANGED result
    /\ UNCHANGED <<package, v_mod, lod_of_profile, writes, call>>

\* An Arrival that has its path is used as it is.
KeepArrival ==
    /\ ~Idle /\ Top.pc = "arrival" /\ ~is_list(Top.arrival)
    /\ Top.arrival.path # <<>>
    /\ stack' = SetTop([Top EXCEPT !.pc = "distance"])
    /\ UNCHANGED <<package, v_mod, lod_of_profile, writes, call, log, result>>

\* if arrival.distance == 0.0: the arrival is replaced by the one traced
\* 1e-10 degree further.
ZeroDistance ==
    /\ ~Idle /\ Top.pc = "distance"
    /\ Top.arrival.distance = 0
    /\ \E way \in corrected(Top.arrival, TinyDistance, Depth) :
          IF way.out.exc # "" THEN Abort(way.out.exc, Append(log, way.event))
          ELSE /\ stack' = SetTop([Top EXCEPT !.arrival = way.out.val,
                                              !.pc = "bottoming"])
               /\ log' = Append(log, way.event)
               /\ UNCHANGED result
    /\ UNCHANGED <<package, v_mod, lod_of_profile, writes, call>>

NonZeroDistance ==
    /\ ~Idle /\ Top.pc = "distance"
    /\ Top.arrival.distance # 0
    /\ stack' = SetTop([Top EXCEPT !.pc = "bottoming"])
    /\ UNCHANGED <<package, v_mod, lod_of_profile, writes, call, log, result>>

\* The ray bottoms within 50 m of the centre:
\* centre_of_planet_coefficients is entered.
NearCentre ==
    /\ ~Idle /\ Top.pc = "bottoming"
    /\ near_centre(Top.arrival)
    /\ stack' = SetTop([Top EXCEPT !.pc = "arrival1"])
    /\ log' = Append(log, Assessed("centre", Top.arrival,
                 [exc |-> "", ray_sigma |-> <<>>, disc_sigma |-> <<>>,
                  sigma |-> <<>>]))
    /\ UNCHANGED <<package, v_mod, lod_of_profile, writes, call, result>>

\* Otherwise the path is segmented and integrated, and the sum returned.
Direct ==
    /\ ~Idle /\ Top.pc = "bottoming"
    /\ ~near_centre(Top.arrival)
    /\ LET returned(out, events) ==
               IF out.exc # "" THEN Abort(out.exc, events)
               ELSE ReturnValue(out.sigma, events)
           evaluated(out) ==
               returned(out, Append(log, Assessed("direct", Top.arrival, out)))
       IN  evaluated(direct_table[traced(Top.arrival), v_mod])
    /\ UNCHANGED <<package, v_mod, lod_of_profile, writes, call>>

\* arrival1 = get_correct_taup_arrival(arrival, model, extra_distance=-0.05)
Arrival1 ==
    /\ ~Idle /\ Top.pc = "arrival1"
    /\ \E way \in corrected(Top.arrival, 0 - TwentiethDegree, Depth + 1) :
          IF way.out.exc # "" THEN Abort(way.out.exc, Append(log, way.event))
          ELSE /\ stack' = SetTop([Top EXCEPT !.arrival1 = way.out.val,
                                              !.pc = "arrival2"])
               /\ log' = Append(log, way.event)
               /\ UNCHANGED result
    /\ UNCHANGED <<package, v_mod, lod_of_profile, writes, call>>

\* arrival2 = get_correct_taup_arrival(arrival, model, extra_distance=-0.10)
\* and then the call ellipticity_coefficients(arrival1, model): the model
\* has its profile, so the call starts at the arrival.
Arrival2 ==
    /\ ~Idle /\ Top.pc = "arrival2"
    /\ \E way \in corrected(Top.arrival, 0 - 2 * TwentiethDegree, Depth + 1) :
          IF way.out.exc # "" THEN Abort(way.out.exc, Append(log, way.event))
          ELSE /\ stack' = Append(SetTop([Top EXCEPT !.arrival2 = way.out.val,
                                                     !.pc = "coeffs1"]),
                                  Frame(Top.arrival1))
               /\ log' = Append(log, way.event)
               /\ UNCHANGED result
    /\ UNCHANGED <<package, v_mod, lod_of_profile, writes, call>>

\* ------------------------------------------------------------------------
\* The coefficient calls of the ellipticipy variant
\* ------------------------------------------------------------------------

IpyFrame(arrivals, single) ==
    [pc |-> "integrate", single |-> single, arrival |-> Head(arrivals),
     pending |-> Tail(arrivals), done |-> <<>>]

\* individual_ellipticity_coefficients, up to the evaluation: the type
\* check of the model and the profile written if there is none.
IpyEnter(arrivals, single, model_kind, lod) ==
    IF model_kind \notin {"TauPyModel", "TauModel"} THEN
        /\ result' = Raise("TypeError")
        /\ UNCHANGED <<v_mod, lod_of_profile, writes, stack>>
    ELSE
        /\ result' = NoOutcome
        /\ stack' = <<IpyFrame(arrivals, single)>>
        /\ IF profile_missing(v_mod, "top_epsilon")
           THEN WriteProfile(ipy_epsilon_profiles[lod], lod)
           ELSE UNCHANGED <<v_mod, lod_of_profile, writes>>

\* individual_ellipticity_coefficients(arrival, model, lod)
IndividualEllipticityCoefficients(arrival, model_kind, lod) ==
    /\ package = "ellipticipy"
    /\ Ready
    /\ call' = [op |-> "individual_ellipticity_coefficients",
                args |-> <<arrival, model_kind, lod>>]
    /\ log' = <<>>
    /\ IpyEnter(<<arrival>>, TRUE, model_kind, lod)
    /\ UNCHANGED package

\* ellipticity_coefficients(arrivals, model, lod) of the ellipticipy variant:
\* individual_ellipticity_coefficients for every arrival of the list.
IpyEllipticityCoefficients(arrivals, model_kind, lod) ==
    /\ package = "ellipticipy"
    /\ Ready
    /\ call' = [op |-> "ellipticity_coefficients",
                args |-> <<arrivals, model_kind, lod>>]
    /\ log' = <<>>
    /\ IF arrivals = <<>> THEN
           /\ result' = Return(<<>>)
           /\ UNCHANGED <<v_mod, lod_of_profile, writes, stack>>
       ELSE IpyEnter(arrivals, FALSE, model_kind, lod)
    /\ UNCHANGED package

\* The evaluation of individual_ellipticity_coefficients for the arrival of
\* the frame; in a list the next arrival follows (its call finds the model
\* checked and the profile present).
Integrate ==
    /\ ~Idle /\ Top.pc = "integrate"
    /\ LET evaluated(out) ==
               /\ log' = Append(log, Assessed("direct", Top.arrival, out))
               /\ IF Top.single THEN
                      /\ result' = Return(out.sigma)
                      /\ stack' = <<>>
                  ELSE IF Top.pending = <<>> THEN
                      /\ result' = Return(Append(Top.done, out.sigma))
                      /\ stack' = <<>>
                  ELSE
                      /\ stack' = <<[Top EXCEPT !.arrival = Head(Top.pending),
                                                !.pending = Tail(Top.pending),
                                                !.done = Append(Top.done, out.sigma)]>>
                      /\ UNCHANGED result
       IN  evaluated(ipy_direct_table[traced(Top.arrival), v_mod])
    /\ UNCHANGED <<package, v_mod, lod_of_profile, writes, call>>

Next ==
    \/ \E m \in Orders, theta \in Thetas : WeightedAlp2(m, theta)
    \/ \E coefficients \in CoefficientInputs, azimuth \in Azimuths,
          source_latitude \in Latitudes :
          CorrectionFromCoefficients(coefficients, azimuth, source_latitude)
    \/ \E side \in {"below", "above"}, depth \in QueryDepths, prop \in PropTags :
          EvaluateDerivative(side, depth, prop)
    \/ \E x \in QueryDepths \cup {0, radius_of_planet} : GetEpsilon(x)
    \/ \E arrival \in {a \in InputArrivals : a.path # <<>>} : RayPath(arrival)
    \/ \E arrival \in {a \in InputArrivals : a.path # <<>>} : SplitRayPath(arrival)
    \/ \E arrival \in {a \in InputArrivals : a.path # <<>>} :
          DiscontinuityCoefficients(arrival)
    \/ \E arrival \in {a \in InputArrivals : a.path # <<>>} :
          IpyDiscontinuityCoefficients(arrival)
    \/ \E lod \in Lods : ModelEpsilon(lod)
    \/ \E lod \in Lods : IpyModelEpsilon(lod)
    \/ \E arrival \in ArrivalArguments, model_kind \in ModelKinds,
          lod \in Lods : EllipticityCoefficients(arrival, model_kind, lod)
    \/ GetTaupArrival
    \/ GetCorrectTaupArrival
    \/ KeepArrival
    \/ ZeroDistance
    \/ NonZeroDistance
    \/ NearCentre
    \/ Direct
    \/ Arrival1
    \/ Arrival2
    \/ \E arrival \in {a \in InputArrivals : a.path # <<>>},
          model_kind \in ModelKinds, lod \in Lods :
          IndividualEllipticityCoefficients(arrival, model_kind, lod)
    \/ \E arrivals \in ArrivalsInputs, model_kind \in ModelKinds,
          lod \in Lods : IpyEllipticityCoefficients(arrivals, model_kind, lod)
    \/ Integrate
    \/ CallerResumes

Spec == Init /\ [][Next]_vars

\* ------------------------------------------------------------------------
\* Properties
\* ------------------------------------------------------------------------

\* The calls that return ellipticity coefficients.
CoefficientCalls ==
    {"ellipticity_coefficients", "individual_ellipticity_coefficients"}

\* A call has ended and its outcome has not been taken yet.
Finished == Idle /\ call # NoCall

Finite(x) == x # NaN

Events(kind) == {k \in 1..Len(log) : log[k].event = kind}

\* C1: for a ray that takes no fallback, the coefficient of every order is
\* the contribution of the ray-path integral plus the contribution of the
\* discontinuities, and a ray's coefficients always have exactly three
\* entries, in the near-centre fallback as well.
CoefficientsAreSumOfContributions ==
    /\ \A k \in Events("direct") :
          log[k].exc = "" =>
             /\ Len(log[k].sigma) = 3
             /\ \A m1 \in 1..3 :
                   log[k].sigma[m1] =
                      IF Finite(log[k].ray_sigma[m1]) /\ Finite(log[k].disc_sigma[m1])
                      THEN log[k].ray_sigma[m1] + log[k].disc_sigma[m1]
                      ELSE NaN
    /\ \A k \in Events("interpolated") : Len(log[k].sigma) = 3
    /\ (Finished /\ call.op \in CoefficientCalls /\ result.exc = "") =>
          IF package = "ellipticipy" /\ call.op = "ellipticity_coefficients"
          THEN /\ Len(result.val) = Len(log)
               /\ \A x \in 1..Len(log) :
                     log[x].event = "direct" /\ result.val[x] = log[x].sigma
          ELSE /\ Len(result.val) = 3
               /\ log # <<>>
               /\ result.val = log[Len(log)].sigma
               /\ log[Len(log)].event =
                     IF Events("centre") = {} THEN "direct" ELSE "interpolated"

SumOfContributionsReturned ==
    /\ Finished /\ package = "ellipticity"
    /\ call.op = "ellipticity_coefficients" /\ result.exc = ""
    /\ Events("centre") = {}
    /\ \E m1 \in 1..3 :
          /\ log[Len(log)].ray_sigma[m1] \notin {0, NaN}
          /\ log[Len(log)].disc_sigma[m1] \notin {0, NaN}

\* The sum of C2 written out term by term for the arguments of a call.
WeightedSum(args) ==
    LET colatitude == HalfTurn \div 2 - Radians(args[3])
        azimuth == Radians(args[2])
        term(m) == Quot(Quot(args[1][m + 1] * weighted_alp2(m, colatitude).val[1],
                             Scale) * Cos(m * azimuth), Scale)
    IN  term(0) + term(1) + term(2)

\* C2: correction_from_coefficients returns the sum over m = 0, 1, 2 of
\* coeff[m] * weighted_alp2(m, colatitude) * cos(m * azimuth), where the
\* colatitude is 90 degrees minus the source latitude; it depends on its
\* three arguments only and leaves the state of the program alone.
CorrectionIsWeightedSum ==
    [][(call = NoCall /\ call'.op = "correction_from_coefficients") =>
          /\ result' = Return(<<WeightedSum(call'.args)>>)
          /\ UNCHANGED <<package, v_mod, lod_of_profile, writes, stack>>]_vars

CorrectionReturned ==
    /\ call.op = "correction_from_coefficients"
    /\ call.args[3] = 30
    /\ result.val[1] # 0
    /\ v_mod # NoAttributes

\* The squared prefactor of order m is the fraction num / den.
SquaredPrefactorIs(m, num, den) ==
    norm_squared(m)[1] * den = norm_squared(m)[2] * num

\* C3 as stated: the squared normalisation prefactors of weighted_alp2 are
\* 1, 1/3 and 1/6 for the orders 0, 1 and 2.
SquaredPrefactorsAsStated ==
    (call.op = "weighted_alp2" /\ call.args[1] \in 0..2) =>
        SquaredPrefactorIs(call.args[1], 1, <<1, 3, 6>>[call.args[1] + 1])

\* C3 amended: the squared normalisation prefactors of weighted_alp2 are
\* 1, 1/3 and 1/12 for the orders 0, 1 and 2, (2 - delta_0m)(2 - m)!/(2 + m)!;
\* at theta = pi/2 the order 2 value is 3 * sqrt(1/12).
SquaredPrefactorsAsComputed ==
    (call.op = "weighted_alp2" /\ call.args[1] \in 0..2) =>
        /\ SquaredPrefactorIs(call.args[1], 1, <<1, 3, 12>>[call.args[1] + 1])
        /\ call.args = <<2, HalfTurn \div 2>> =>
              result = Return(<<3 * Sqrt(Quot(Scale * Scale, 12))>>)

OrderTwoEvaluated ==
    /\ call.op = "weighted_alp2"
    /\ call.args = <<2, HalfTurn \div 2>>
    /\ result.exc = ""

\* C4: weighted_alp2(m, theta) raises ValueError for every order m other
\* than 0, 1 and 2, and returns no value then.
OtherOrdersRaiseValueError ==
    (call.op = "weighted_alp2" /\ call.args[1] \notin {0, 1, 2}) =>
        result = Raise("ValueError")

OtherOrderRaised ==
    /\ call.op = "weighted_alp2"
    /\ call.args[1] = 3
    /\ result.exc = "ValueError"

\* The answers of the ray tracer to get_taup_arrival that held no arrival
\* at the distance asked for.
NothingAtDistance ==
    {k \in Events("get_ray_paths") :
        log[k].caller = "get_taup_arrival" /\ log[k].none_at_distance}

\* C5: when the coefficients are asked for by a list [phase, distance,
\* source_depth, index] and the ray tracer returns no arrival at that
\* distance, the call raises PhaseError and returns no coefficients.
NoArrivalRaisesPhaseError ==
    NothingAtDistance # {} =>
        /\ is_list(call.args[1])
        /\ Idle
        /\ result = Raise("PhaseError")

NoArrivalAtDistanceAnswered ==
    /\ \E k \in NothingAtDistance : ~log[k].none_returned
    /\ result.exc = "PhaseError"

\* A step of a coefficient call: its entry or a later stretch of it.
CoefficientStep ==
    \/ call = NoCall /\ call'.op \in CoefficientCalls
    \/ ~Idle

\* The coefficients returned for an arrival that is evaluated as it is come
\* from the profile stored on the model.
ReusesStoredProfile ==
    /\ (/\ Finished /\ package = "ellipticity"
        /\ call.op = "ellipticity_coefficients" /\ result.exc = ""
        /\ ~is_list(call.args[1])
        /\ call.args[1].path # <<>> /\ call.args[1].distance # 0
        /\ ~near_centre(call.args[1]))
       => result.val =
             direct_table[traced(call.args[1]),
                          epsilon_profiles[lod_of_profile]].sigma
    /\ (/\ Finished /\ call.op = "individual_ellipticity_coefficients"
        /\ result.exc = "")
       => result.val =
             ipy_direct_table[traced(call.args[1]),
                              ipy_epsilon_profiles[lod_of_profile]].sigma

\* C6: once a profile is attached to the model object, a coefficient call
\* leaves it as it is and uses it, whatever length of day the call passes.
StoredProfileIsReused ==
    /\ []ReusesStoredProfile
    /\ [][(CoefficientStep /\ v_mod # NoAttributes) =>
             UNCHANGED <<v_mod, lod_of_profile, writes>>]_vars

OtherLengthOfDayPassed ==
    /\ Finished /\ call.op \in CoefficientCalls /\ result.exc = ""
    /\ lod_of_profile # 0
    /\ call.args[3] # lod_of_profile

Decisions == Events("direct") \cup Events("centre")

\* C8 as stated: the near-centre fallback is taken exactly when the ray
\* bottoms less than 50 m from the centre, and only otherwise is the path
\* segmented and integrated.
FallbackExactlyNearCentre ==
    \A k \in Decisions : log[k].event = "centre" <=> log[k].gap < 50

\* C8 amended: in the ellipticity variant the near-centre fallback is taken
\* exactly when the ray bottoms less than 50 m from the centre and only
\* otherwise is the path segmented and integrated; the ellipticipy variant
\* has no fallback and segments and integrates every path.
FallbackOnlyInEllipticityVariant ==
    \A k \in Decisions :
        IF package = "ellipticity"
        THEN log[k].event = "centre" <=> log[k].gap < 50
        ELSE log[k].event = "direct"

FallbackAndDirectDecided ==
    /\ package = "ellipticity"
    /\ \E k \in Events("centre") : log[k].gap \in 1..49
    /\ \E k \in Events("direct") : log[k].gap = 50

Between(x, a, b) == (a <= x /\ x <= b) \/ (b <= x /\ x <= a)

\* C9 as stated: in the near-centre fallback every returned coefficient
\* lies between the coefficients of the two auxiliary rays.
InterpolationStaysBetween ==
    \A k \in Events("interpolated") : \A i \in 1..3 :
        (Finite(log[k].coeffs1[i]) /\ Finite(log[k].coeffs2[i])) =>
            Between(log[k].sigma[i], log[k].coeffs1[i], log[k].coeffs2[i])

\* C9 amended: in the near-centre fallback every returned coefficient is
\* the linear extrapolation 2 * c1 - c2 of the coefficients c1 and c2 of the
\* auxiliary rays traced 0.05 and 0.10 degree short of the ray's distance
\* (not finite when one of them is not).
InterpolationExtrapolates ==
    \A k \in Events("interpolated") : \A i \in 1..3 :
        log[k].sigma[i] =
            IF Finite(log[k].coeffs1[i]) /\ Finite(log[k].coeffs2[i])
            THEN 2 * log[k].coeffs1[i] - log[k].coeffs2[i]
            ELSE NaN

AuxiliaryCoefficientsDiffer ==
    \E k \in Events("interpolated") : \E i \in 1..3 :
        /\ Finite(log[k].coeffs1[i]) /\ Finite(log[k].coeffs2[i])
        /\ log[k].coeffs1[i] # log[k].coeffs2[i]

\* C10: when the zero-distance or the near-centre fallback asks the ray
\* tracer for a nearby arrival and gets none, the call raises PhaseError.
MissingNearbyArrivalRaisesPhaseError ==
    (/\ Finished
     /\ call.op = "ellipticity_coefficients" /\ package = "ellipticity"
     /\ (is_list(call.args[1]) \/ call.args[1].path # <<>>)
     /\ \E k \in Events("get_ray_paths") :
           log[k].caller = "get_correct_taup_arrival" /\ log[k].none_returned)
    => result = Raise("PhaseError")

\* The frames of the call in progress that are past the zero-distance test.
PastDistanceTest ==
    {f \in 1..Len(stack) : stack[f].pc \notin {"arrival", "distance"}}

\* The step taken at the zero-distance test by an arrival of distance 0.
ZeroDistanceStep == ~Idle /\ Top.pc = "distance" /\ Top.arrival.distance = 0

\* C11: an arrival of epicentral distance exactly 0 passed to
\* ellipticity_coefficients (ellipticity variant) is replaced by an arrival
\* traced at that distance plus 1e-10 before the bottoming-depth test, so
\* the test, the segment integral and the boundary contribution never see
\* an arrival whose distance is exactly 0.
ZeroDistanceIsReplacedFirst ==
    /\ [](package = "ellipticity" =>
            /\ \A f \in PastDistanceTest : stack[f].arrival.distance # 0
            /\ \A k \in Decisions : log[k].distance # 0)
    /\ [][ZeroDistanceStep =>
             /\ log' = Append(log, log'[Len(log')])
             /\ log'[Len(log')].event = "get_ray_paths"
             /\ log'[Len(log')].caller = "get_correct_taup_arrival"
             /\ log'[Len(log')].distance = TinyDistance
             /\ \/ stack' = <<>> /\ result'.exc # ""
                \/ /\ Len(stack') = Len(stack)
                   /\ stack'[Len(stack')].pc = "bottoming"
                   /\ stack'[Len(stack')].arrival.distance = TinyDistance]_vars

ZeroDistanceArrivalEvaluated ==
    /\ Finished /\ package = "ellipticity"
    /\ call.op = "ellipticity_coefficients" /\ result.exc = ""
    /\ ~is_list(call.args[1]) /\ call.args[1].distance = 0
    /\ \E k \in Events("direct") : log[k].distance = TinyDistance

\* The calls of the depth-derivative query.
DerivativeCalls == {"evaluate_derivative_below", "evaluate_derivative_above"}

\* C12: the depth-derivative query raises ValueError for every
\* material-property tag other than p, s, r and d in either case, and
\* returns a slope only for those tags.
OnlyKnownTagsHaveSlope ==
    call.op \in DerivativeCalls =>
        IF call.args[2] \in {"p", "s", "r", "d", "P", "S", "R", "D"}
        THEN result.exc = "" /\ Len(result.val) = 1
        ELSE result = Raise("ValueError")

\* C13: the epsilon sampler, asked for a radius (ellipticity variant) or a
\* depth (ellipticipy variant) that is one of the profile's stored ones,
\* returns the epsilon stored for it; at the surface and at the centre too,
\* where the lookup stays inside the profile arrays.
StoredRadiusGivesStoredEpsilon ==
    (call.op = "get_epsilon" /\ v_mod # NoAttributes) =>
        /\ result.exc = ""
        /\ IF package = "ellipticity"
           THEN \A i \in 1..Len(v_mod.epsilon_r) :
                   call.args[1] = v_mod.epsilon_r[i] =>
                       result.val = <<v_mod.epsilon[i]>>
           ELSE \A k \in 1..Len(Layers) :
                   /\ call.args[1] = Layers[k].top_depth =>
                         result.val = <<v_mod.top_epsilon[k]>>
                   /\ call.args[1] = Layers[k].bot_depth =>
                         result.val = <<v_mod.bot_epsilon[k]>>

StoredRadiusSampled ==
    /\ call.op = "get_epsilon" /\ package = "ellipticity"
    /\ v_mod # NoAttributes
    /\ call.args[1] = 3 * DR
    /\ result.val = <<v_mod.epsilon[4]>>
    /\ v_mod.epsilon[4] # v_mod.epsilon[3]

\* The pieces a finished call of a segmenter has cut the path into: the
\* segments returned by ray_path, the candidate segments of split_ray_path.
Pieces ==
    IF call.op = "ray_path" THEN [k \in 1..Len(result.val) |-> result.val[k].path]
    ELSE log[1].dpaths

\* The index in the path of the last point of piece k, every piece starting
\* at the last point of the piece before it.
EndOfPiece(k) == 1 + SumSeq([j \in 1..k |-> Len(Pieces[j]) - 1])

\* The indices of the points at which a piece starts or ends.
PieceBoundaries == {1} \cup {EndOfPiece(k) : k \in 1..Len(Pieces)}

\* The points of the path at a discontinuity depth (the centre is none).
AtDiscontinuity(path) == {i \in 1..Len(path) : path[i].depth \in discs}

AtBottomingDepth(path) ==
    {i \in 1..Len(path) : path[i].depth = MaxOf(Depths(path))}

Segmented == call.op \in {"ray_path", "split_ray_path"} /\ result.exc = ""

\* C14 as stated: the points at which the segmenter starts or ends a
\* segment are exactly the source point, the receiver point, the points at
\* the bottoming depth and the points at a discontinuity depth.
BoundariesIncludeBottoming ==
    Segmented =>
        PieceBoundaries =
            {1, Len(call.args[1].path)}
            \cup AtBottomingDepth(call.args[1].path)
            \cup AtDiscontinuity(call.args[1].path)

\* C14 amended: ray_path (ellipticity variant) starts or ends a segment
\* exactly at the source point, the receiver point, the points at the
\* bottoming depth and the points at a discontinuity depth; split_ray_path
\* (ellipticipy variant) exactly at the source point and the points at a
\* discontinuity depth, the receiver at the surface being one of them: a
\* bottoming point that is not at a discontinuity lies inside a segment.
BoundariesOfEachSegmenter ==
    Segmented =>
        PieceBoundaries =
            IF call.op = "ray_path"
            THEN {1, Len(call.args[1].path)}
                 \cup AtBottomingDepth(call.args[1].path)
                 \cup AtDiscontinuity(call.args[1].path)
            ELSE {1} \cup AtDiscontinuity(call.args[1].path)

BottomingPointSplitsPath ==
    /\ Segmented /\ call.op = "ray_path"
    /\ \E i \in AtBottomingDepth(call.args[1].path) :
          /\ i \notin AtDiscontinuity(call.args[1].path)
          /\ i \in PieceBoundaries
    /\ \E i \in 1..Len(call.args[1].path) : i \notin PieceBoundaries

\* The index in the path of the first point of piece k.
StartOfPiece(k) == IF k = 1 THEN 1 ELSE EndOfPiece(k - 1)

\* C15: in the segment list built from a path, diffracted segments not yet
\* removed, the last point of each segment is the first point of the next
\* one, the first segment starts at the source point and the last segment
\* ends at the receiver point; every segment is a stretch of the path, so
\* every path point belongs to at least one segment.
SegmentsShareTheirJoins ==
    Segmented =>
        /\ Pieces # <<>>
        /\ Pieces[1][1] = call.args[1].path[1]
        /\ Pieces[Len(Pieces)][Len(Pieces[Len(Pieces)])]
              = call.args[1].path[Len(call.args[1].path)]
        /\ EndOfPiece(Len(Pieces)) = Len(call.args[1].path)
        /\ \A k \in 1..(Len(Pieces) - 1) :
              Pieces[k][Len(Pieces[k])] = Pieces[k + 1][1]
        /\ \A k \in 1..Len(Pieces) :
              /\ Len(Pieces[k]) >= 2
              /\ \A j \in 1..Len(Pieces[k]) :
                    Pieces[k][j] = call.args[1].path[StartOfPiece(k) + j - 1]

SeveralSegmentsJoined ==
    /\ Segmented /\ call.op = "split_ray_path"
    /\ Len(Pieces) >= 4

\* A finished call of the kinematic segmenter.
Classified == call.op = "split_ray_path" /\ result.exc = ""

\* The candidate segments with their tags, in the order of the path.
Candidates ==
    [k \in 1..Len(log[1].dpaths) |->
        [path |-> log[1].dpaths[k], wave |-> log[1].dwaves[k]]]

NotDiffracted(seg) == seg.wave # "diff"

\* The two points classify_path examines have the same depth: the first two
\* points when the segment starts shallower than it ends, else the last two.
ExaminedPointsLevel(path) ==
    IF path[1].depth < path[Len(path)].depth
    THEN path[1].depth = path[2].depth
    ELSE path[Len(path) - 1].depth = path[Len(path)].depth

\* C16 as stated: a candidate segment whose two endpoints have identical
\* depth is tagged diffracted, and the returned lists are the candidates
\* that are not tagged diffracted.
LevelEndpointsAreDiffracted ==
    Classified =>
        /\ \A k \in 1..Len(Candidates) :
              Candidates[k].path[1].depth
                 = Candidates[k].path[Len(Candidates[k].path)].depth
              => Candidates[k].wave = "diff"
        /\ result.val = SelectSeq(Candidates, NotDiffracted)

\* C16 amended: a candidate segment is tagged diffracted exactly when the
\* two points classify_path examines (the first two when the segment starts
\* shallower than it ends, else the last two) have identical depth, so a
\* segment that turns between two points of one depth is not; the returned
\* lists are the candidates that are not tagged diffracted, in order, and
\* none of them carries the diffracted tag.
LevelExaminedPointsAreDiffracted ==
    Classified =>
        /\ \A k \in 1..Len(Candidates) :
              Candidates[k].wave = "diff" <=> ExaminedPointsLevel(Candidates[k].path)
        /\ result.val = SelectSeq(Candidates, NotDiffracted)
        /\ \A k \in 1..Len(result.val) : result.val[k].wave \in {"p", "s"}

DiffractedSegmentDropped ==
    /\ Classified
    /\ \E k \in 1..Len(Candidates) : Candidates[k].wave = "diff"
    /\ result.val # <<>>
    /\ Len(result.val) < Len(Candidates)

\* The relative error of the delay time predicted for a wave type between
\* two points, against the delay time observed between them: travel time
\* less ray parameter times distance.
PredictionError(wave, point0, point1) ==
    relative_error(
        expected_delay_time(point0.p, point0.depth, point1.depth, wave),
        (point1.time - point0.time) * Scale
           - Quot(point0.p * Abs(point0.dist - point1.dist) * AngleUnitE4, 10))

\* The error a is smaller in absolute value than the error b.
Closer(a, b) ==
    /\ a \notin {NaN, Inf} /\ b # NaN
    /\ b = Inf \/ Abs(a) < Abs(b)

\* The tag agrees with the errors of the two predictions between the
\* examined points.
CloserWins(wave, point0, point1) ==
    /\ Closer(PredictionError("p", point0, point1),
              PredictionError("s", point0, point1)) => wave = "p"
    /\ Closer(PredictionError("s", point0, point1),
              PredictionError("p", point0, point1)) => wave = "s"

\* The same for a candidate segment: the examined points are the first two
\* when the segment starts shallower than it ends, else the last two.
CloserWinsOn(path, wave) ==
    IF path[1].depth < path[Len(path)].depth
    THEN CloserWins(wave, path[1], path[2])
    ELSE CloserWins(wave, path[Len(path) - 1], path[Len(path)])

\* C17: for a candidate segment that is not diffracted classify_path
\* returns p when the delay time predicted for a p wave is closer to the
\* observed one by absolute relative error than the one predicted for an
\* s wave, and s when the s prediction is closer; the tag is always one of
\* p, s and diffracted.
CloserPredictionWins ==
    Classified =>
        \A k \in 1..Len(Candidates) :
            /\ Candidates[k].wave \in {"p", "s", "diff"}
            /\ Candidates[k].wave # "diff" =>
                  CloserWinsOn(Candidates[k].path, Candidates[k].wave)

BothWaveTypesClassified ==
    /\ Classified
    /\ \E k \in 1..Len(Candidates) :
          /\ Candidates[k].wave = "s"
          /\ Closer(PredictionError("s", Candidates[k].path[Len(Candidates[k].path) - 1],
                                     Candidates[k].path[Len(Candidates[k].path)]),
                    PredictionError("p", Candidates[k].path[Len(Candidates[k].path) - 1],
                                     Candidates[k].path[Len(Candidates[k].path)]))
    /\ \E k \in 1..Len(Candidates) :
          /\ Candidates[k].wave = "p"
          /\ Closer(PredictionError("p", Candidates[k].path[1], Candidates[k].path[2]),
                    PredictionError("s", Candidates[k].path[1], Candidates[k].path[2]))

\* ------------------------------------------------------------------------
\* The boundary term
\* ------------------------------------------------------------------------

\* The call of discontinuity_coefficients (ellipticity variant) that has
\* returned, its boundary points and the passes of its loop.
BoundaryTermAssessed ==
    /\ package = "ellipticity"
    /\ call.op = "discontinuity_coefficients"
    /\ log # <<>>

BoundaryPasses == IF BoundaryTermAssessed THEN log[1].passes ELSE <<>>

BoundaryPoints == IF BoundaryTermAssessed THEN log[1].idiscs ELSE <<>>

OwnFactorBranches ==
    {"transmission", "underside reflection", "topside reflection",
     "surface reflection", "endpoint"}

\* C18: every assessed boundary point is a transmission, a reflection, a
\* surface reflection, an endpoint or excluded, and the factor eva of every
\* summed boundary point is assigned in the pass of that point.
SummedPointsAssignTheirFactor ==
    \A k \in 1..Len(BoundaryPasses) :
        /\ BoundaryPasses[k].exc = ""
        /\ BoundaryPasses[k].kind \in OwnFactorBranches \cup {"excluded"}
        /\ BoundaryPasses[k].yn => BoundaryPasses[k].fresh

\* A boundary point at the core-mantle boundary of a phase whose name
\* contains diff, or one at the bottoming depth of the ray that is no
\* discontinuity of the model and is not the first boundary point.
LeftOut(arrival, k) ==
    LET name == arrival.name
        dep == BoundaryPoints[k].dep
        deepest == CHOOSE x \in Depths(arrival.path) :
                      \A y \in Depths(arrival.path) : y <= x
    IN  \/ /\ \E i \in 1..(Len(name) - 3) :
                  SubSeq(name, i, i + 3) = <<"d", "i", "f", "f">>
           /\ dep = Layers[3].top_depth
        \/ /\ dep = deepest
           /\ dep \notin get_discontinuity_depths \ {radius_of_planet}
           /\ k # 1

\* C19: a boundary point at the core-mantle boundary of a diff phase, and
\* one at the bottoming depth that is no discontinuity and not the first
\* boundary point, are excluded: they are not marked for summing and the
\* three boundary coefficients are the sums over the other points alone.
LeftOutPointsAddNothing ==
    BoundaryTermAssessed =>
        /\ \A k \in 1..Len(BoundaryPasses) :
              LeftOut(call.args[1], k) =>
                  /\ BoundaryPasses[k].kind = "excluded"
                  /\ ~BoundaryPasses[k].yn
        /\ result.exc = "" =>
              result.val =
                  [m1 \in 1..3 |->
                      FSum([k \in 1..Len(BoundaryPasses) |->
                              IF LeftOut(call.args[1], k) THEN 0
                              ELSE BoundaryPasses[k].sigma[m1]])]

\* A diffracted phase whose points at the core-mantle boundary were left out
\* of a boundary term that is not zero.
CoreMantlePointOfDiffLeftOut ==
    /\ BoundaryTermAssessed
    /\ call.args[1].name = <<"P", "d", "i", "f", "f">>
    /\ \E k \in 1..Len(BoundaryPasses) :
          LeftOut(call.args[1], k) /\ BoundaryPoints[k].dep = cmb_depth
    /\ result.exc = ""
    /\ result.val # <<0, 0, 0>>

\* The passes of the loop that took the endpoint branch, and the calls of
\* discontinuity_contribution (ellipticipy variant) at an end of the path.
EndpointPasses == {k \in 1..Len(BoundaryPasses) : BoundaryPasses[k].kind = "endpoint"}

EndContributions ==
    IF package = "ellipticipy" /\ call.op = "discontinuity_coefficients"
    THEN {k \in 1..Len(log) :
             \/ log[k].disc_point = call.args[1].path[1]
             \/ log[k].disc_point = call.args[1].path[Len(call.args[1].path)]}
    ELSE {}

\* The sign of the directional factor that a returned contribution was
\* multiplied by: 0 when the contribution does not tell.
FactorSigns(contribution) ==
    {Sign(contribution.sigma[m1])
        * Sign(ipy_get_epsilon(v_mod, contribution.disc_point.depth))
        * Sign(lamda(m1 - 1, contribution.disc_point.dist)) :
     m1 \in {m \in 1..3 : Finite(contribution.sigma[m])}}

\* C20 as stated: the factor at a path endpoint is negative at the source
\* point and positive at the receiver point, whichever way the ray departs.
EndpointSignBySourceOrReceiver ==
    /\ \A k \in EndpointPasses :
          IF BoundaryPoints[k].ind = 1
          THEN BoundaryPasses[k].eva.val <= 0
          ELSE BoundaryPasses[k].eva.val >= 0
    /\ \A k \in EndContributions :
          IF log[k].disc_point = call.args[1].path[1]
          THEN 1 \notin FactorSigns(log[k])
          ELSE 0 - 1 \notin FactorSigns(log[k])

\* C20: the factor at a path endpoint is one one-sided vertical slowness,
\* taken on the side of the point where the ray lies: positive when the ray
\* lies below the point (the receiver, the source of a downgoing ray),
\* negative when it lies above (the source of an upgoing ray).
EndpointSignBySideOfRay ==
    /\ \A k \in EndpointPasses :
          LET path == call.args[1].path
              ind == BoundaryPoints[k].ind
              dep == BoundaryPoints[k].dep
              tag(segs) == IF ind = 1 THEN segs[1].wave[1]
                           ELSE segs[Len(segs)].wave[Len(segs[Len(segs)].wave)]
              wave == tag(ray_path(call.args[1]).segs)
              root(v) == slowness_root(radius_of_planet - dep, v, path[1].p)
              next_depth == IF ind = 1 THEN path[2].depth
                            ELSE path[Len(path) - 1].depth
          IN  IF next_depth > dep
              THEN /\ BoundaryPasses[k].eva.val = root(evaluate_below(dep, wave))
                   /\ BoundaryPasses[k].eva.val >= 0
              ELSE /\ BoundaryPasses[k].eva.val
                          = FNeg(root(evaluate_above(dep, wave)))
                   /\ BoundaryPasses[k].eva.val <= 0
    /\ \A k \in EndContributions :
          IF log[k].neighbour_point.depth > log[k].disc_point.depth
          THEN 0 - 1 \notin FactorSigns(log[k])
          ELSE 1 \notin FactorSigns(log[k])

\* The boundary term of a ray that leaves its source downwards: the factor
\* at the source point is positive.
DowngoingSourceFactorPositive ==
    \E k \in EndpointPasses :
        /\ BoundaryPoints[k].ind = 1
        /\ call.args[1].path[2].depth > BoundaryPoints[k].dep
        /\ BoundaryPasses[k].eva.val > 0
        /\ BoundaryPasses[k].sigma # <<0, 0, 0>>

\* C21: no square root of a negative number is taken in the boundary
\* term: the factor of every summed boundary point, its three coefficients
\* and the returned sums are numbers, never NaN.
NoNaNEntersBoundaryTerm ==
    /\ \A k \in 1..Len(BoundaryPasses) :
          BoundaryPasses[k].yn /\ BoundaryPasses[k].exc = "" =>
              /\ Finite(BoundaryPasses[k].eva.val)
              /\ \A m1 \in 1..3 : Finite(BoundaryPasses[k].sigma[m1])
    /\ package = "ellipticipy" /\ call.op = "discontinuity_coefficients" =>
          \A k \in 1..Len(log), m1 \in 1..3 : Finite(log[k].sigma[m1])
    /\ call.op = "discontinuity_coefficients" /\ result.exc = "" =>
          \A m1 \in 1..Len(result.val) : Finite(result.val[m1])

\* ------------------------------------------------------------------------
\* The segments of ray_path
\* ------------------------------------------------------------------------

\* The segments that a call of ray_path returned.
ReturnedSegments ==
    IF call.op = "ray_path" /\ result.exc = "" THEN result.val ELSE <<>>

\* C22: in every segment returned by ray_path each point has a tag and all
\* tags of the segment are the same, the tag of the boundary point that
\* closes the segment included.
OneWaveTypePerSegment ==
    \A k \in 1..Len(ReturnedSegments) :
        /\ Len(ReturnedSegments[k].wave) = Len(ReturnedSegments[k].path)
        /\ \A i \in 1..Len(ReturnedSegments[k].wave) :
              ReturnedSegments[k].wave[i] = ReturnedSegments[k].wave[1]

\* A segment closed by the boundary point at which the wave type changes.
SegmentClosedWhereWaveTypeChanges ==
    \E k \in 1..(Len(ReturnedSegments) - 1) :
        /\ ReturnedSegments[k].wave[1] # ReturnedSegments[k + 1].wave[1]
        /\ ReturnedSegments[k].path[Len(ReturnedSegments[k].path)]
              = ReturnedSegments[k + 1].path[1]

\* The segments of ray_path that the boundary term was called with.
SegmentsAssessed ==
    IF BoundaryTermAssessed THEN ray_path(call.args[1]).segs ELSE <<>>

\* C23: the boundary points are aligned with the segments of ray_path: there
\* is one boundary point more than there are segments, the d-th boundary
\* point is the first path point of segment d, so the last tag of segment
\* d - 1 and the first tag of segment d are the wave types before and after
\* it, and no pass of the loop runs out of the range of an index.
BoundaryPointsAlignedWithSegments ==
    BoundaryTermAssessed =>
        /\ Len(BoundaryPoints) = Len(SegmentsAssessed) + 1
        /\ \A d \in 1..Len(SegmentsAssessed) :
              /\ call.args[1].path[BoundaryPoints[d].ind]
                    = SegmentsAssessed[d].path[1]
              /\ BoundaryPoints[d].dep = SegmentsAssessed[d].path[1].depth
              /\ d > 1 =>
                    SegmentsAssessed[d - 1].path[Len(SegmentsAssessed[d - 1].path)]
                        = SegmentsAssessed[d].path[1]
        /\ BoundaryPoints[Len(BoundaryPoints)].ind = Len(call.args[1].path)
        /\ \A k \in 1..Len(BoundaryPasses) :
              BoundaryPasses[k].exc \notin {"IndexError", "KeyError"}

\* The boundary term of a ray whose bottoming point is no discontinuity and
\* whose source lies below the surface: the points of both kinds are
\* boundary points and start a segment each.
BottomingPointAndDeepSourceAligned ==
    /\ BoundaryTermAssessed
    /\ call.args[1].source_depth # 0
    /\ Len(BoundaryPasses) = Len(BoundaryPoints)
    /\ \E d \in 2..Len(SegmentsAssessed) :
          /\ BoundaryPoints[d].dep \notin get_discontinuity_depths
          /\ call.args[1].path[BoundaryPoints[d].ind] = SegmentsAssessed[d].path[1]

\* ------------------------------------------------------------------------
\* The boundary term of the two variants
\* ------------------------------------------------------------------------

\* What discontinuity_contribution of the ellipticipy variant multiplies
\* epsilon and lambda by, summed over the ends of the segments of
\* split_ray_path that lie at the path point  point .
EndFactorsAt(arrival, point) ==
    LET ends(seg) ==
            FAdd(IF seg.path[1] = point
                 THEN signed_vertical_slowness(seg.path[1], seg.path[2], seg.wave)
                 ELSE 0,
                 IF seg.path[Len(seg.path)] = point
                 THEN signed_vertical_slowness(seg.path[Len(seg.path)],
                                               seg.path[Len(seg.path) - 1], seg.wave)
                 ELSE 0)
        total(segs) == FSum([x \in 1..Len(segs) |-> ends(segs[x])])
    IN  total(split_ray_path(arrival))

\* The boundary points that the loop of the ellipticity variant classified
\* and whose factor is a number.
ClassifiedPoints ==
    {k \in 1..Len(BoundaryPasses) :
        /\ BoundaryPasses[k].exc = ""
        /\ BoundaryPasses[k].kind \in OwnFactorBranches
        /\ Finite(BoundaryPasses[k].eva.val)}

\* C24: at every boundary point that the ellipticity variant classifies as
\* transmission, reflection, surface reflection or endpoint, the factor eva
\* equals the sum of the signed vertical slownesses that the ellipticipy
\* variant takes at the ends of its segments at that point.
VariantsAgreeOnBoundaryFactor ==
    \A k \in ClassifiedPoints :
        BoundaryPasses[k].eva.val
            = EndFactorsAt(call.args[1], call.args[1].path[BoundaryPoints[k].ind])

\* A transmission through a discontinuity with a factor that is not zero,
\* which the ends of the two segments of the other variant add up to.
TransmissionFactorFromSegmentEnds ==
    \E k \in ClassifiedPoints :
        /\ BoundaryPasses[k].kind = "transmission"
        /\ BoundaryPasses[k].eva.val # 0
        /\ Len(split_ray_path(call.args[1])) > 2
        /\ BoundaryPasses[k].eva.val
              = EndFactorsAt(call.args[1], call.args[1].path[BoundaryPoints[k].ind])

====
